---- MODULE Spec2Model ----
(***************************************************************************)
(* Event-driven posture pipeline of the security-posture platform.         *)
(*                                                                         *)
(* Four state machines share this module, each with its own               *)
(* specification; the variables of the others stay as Init left them:      *)
(*   SpecQueue    secplat_queue.consume (services/queue/.../client.py)     *)
(*   SpecJobs     scan_jobs table, worker-web and the jobs router          *)
(*   SpecDeriver  the posture deriver (services/deriver/main.py)           *)
(*   SpecCorrelator  the correlator (services/correlator/main.py)          *)
(***************************************************************************)
EXTENDS Integers, Sequences, FiniteSets, TLC

(***************************************************************************)
(* Bounds of the model.                                                    *)
(***************************************************************************)
\* messages published to the consumed stream
MaxMsgs == 2
\* largest max_retries argument consume() is started with
MaxRetriesArg == 2
\* transport connection errors that occur in one behaviour
MaxConnErrors == 2
\* scan jobs created through the API
MaxJobs == 1
\* retry requests the API accepts in one behaviour
MaxRetryReqs == 2
\* database statements of run_one_job that raise in one behaviour
MaxDbErrors == 1
\* clock advances between the deriver's steps in one behaviour
MaxTicks == 2
\* health events written to the event store in one behaviour
MaxEvents == 2
\* event store requests of the deriver (upserts, searches, reads) that fail
\* in one behaviour
MaxPutErrors == 1
\* times the consume() process is started again in one behaviour
MaxRestarts == 1
\* API requests in which publish_scan_job raises in one behaviour
MaxPublishRaises == 1
\* POST /findings requests in one behaviour
MaxUpserts == 4
\* times the suppression of the asset begins or ends in one behaviour
MaxWindowChanges == 2
\* the maximum length the publishers pass to XADD (100_000, 10_000 and 50_000
\* in the source), scaled down
StreamMaxLen == 3
\* entries per node of a stream (stream-node-max-entries), scaled down
NodeEntries == 2
\* entries appended to one stream in one behaviour
MaxAppends == 7
\* PATCH /incidents/{id}/status requests in one behaviour
MaxStatusReqs == 4
\* messages published to the notify stream
MaxNotifyMsgs == 2
\* times the notifier's consumer group is lost in one behaviour
MaxGroupLosses == 1
\* failed requests to Slack or Twilio in one behaviour
MaxSendErrors == 1
\* connection errors of the notifier's Redis calls in one behaviour
MaxNotifyConnErrors == 1
\* messages published to the correlation stream
MaxCorrMsgs == 2
\* requests of the correlator to the API that fail (transport error, 5xx)
\* in one behaviour
MaxApiErrors == 1
\* times the API stops accepting the tokens it issued so far
MaxTokenExpiries == 1
\* transport connection errors of the correlator's Redis calls in one
\* behaviour
MaxCorrConnErrors == 1

\* STALE_THRESHOLD_SECONDS = int(os.environ.get("STALE_THRESHOLD_SECONDS", "300"))
DefaultStaleThreshold == 300
\* elif staleness_seconds > 300
AmberAfterSeconds == 300

(***************************************************************************)
(* Queue client: state.                                                    *)
(***************************************************************************)
VARIABLES
    stream,        \* the stream consume() reads: sequence of field maps; id = index
    dlq,           \* the dead-letter stream: sequence of field maps
    dlqFor,        \* per dead-letter entry: id of the message it was written for
    delivered,     \* consumer group cursor: ids 1..delivered were handed out
    pending,       \* the group's pending-entries list (ids read, not acked)
    max_retries,   \* consume()'s max_retries argument
    cpc,           \* position of the consume() loop
    mid,           \* consume(): id of the message being processed
    payload,       \* consume(): dict(fields) of that message
    retries,       \* consume(): the retries counter
    sleeps,        \* seconds slept by time.sleep(2**retries) for this message
    hist,          \* per message id: outcomes of the handler invocations
    acks,          \* per message id: successful XACK calls
    faulted,       \* per message id: a transport call raised while processing it
    connErrors     \* connection errors raised so far

(***************************************************************************)
(* Queue client: the consumer group and the consumer process as operated.  *)
(***************************************************************************)
VARIABLES
    group,         \* the consumer group exists on the stream
    restarts       \* times consume() was started again

(***************************************************************************)
(* Scan jobs: state.                                                       *)
(***************************************************************************)
VARIABLES
    jobs,          \* scan_jobs table: job_id -> [status, job_type, retry_count]
    scanStream,    \* stream secplat.jobs.scan: job_id fields of the entries not
                   \* yet delivered to consumer group "workers", oldest first
    scanPending,   \* per job_id: entries of group "workers" read and not acked
    wpc,           \* per worker: position in main()'s loop
    wmsg,          \* per worker: job_id of the message read in this iteration (0: none)
    wjob,          \* per worker: job_id of the row claimed in this iteration (0: None)
    wsel,          \* per worker: job_id fetch_job's sub-select returned (0: none)
    publishing,    \* per job: requests that committed and have yet to publish
    retrying,      \* per job: retry_job requests between SELECT and UPDATE
    retryReqs,     \* retry requests accepted so far
    dbErrors,      \* statements of run_one_job that raised so far
    claimed,       \* per job: claims that returned its row since it was last queued
    claimedById,   \* per job: of those, the ones made by claim_job_by_id
    announced,     \* per job: stream messages published for it so far
    apiRaised      \* API requests ended by an exception out of publish_scan_job

(***************************************************************************)
(* Deriver: state.                                                         *)
(***************************************************************************)
VARIABLES
    threshold,     \* STALE_THRESHOLD_SECONDS of this deployment
    clock,         \* wall clock, epoch seconds
    ticks,         \* clock advances so far
    latest,        \* event store: per asset key the newest health event (<<>>: none)
    posted,        \* health events written so far
    statusDoc,     \* status index: per asset key the stored document (<<>>: none)
    dpc,           \* position of run_derivation
    now_epoch,     \* run_derivation: the clock reading of this cycle
    example_com_event,  \* run_derivation: the event fetch_example_com_event returned
    idx,           \* run_derivation: position of `for asset in assets`
    event,         \* run_derivation: the asset's event fetch_latest_health_event returned
    doc,           \* run_derivation: the document built for the asset
    putErrors,     \* failed event store requests of the deriver so far
    written,       \* per asset key: the last two successful upserts, oldest first,
                   \* each with the inputs it was derived from
    unrefreshed    \* whether a document was upserted since the last _refresh request

\* A second deriver process working on the same stores.
VARIABLES
    dpc2,          \* where the second deriver process is
    now_epoch2,    \* its run_derivation: the clock reading of the cycle
    example_com_event2, \* its run_derivation: the example-com event fetched
    idx2,          \* its run_derivation: position of `for asset in assets`
    event2,        \* its run_derivation: the asset's event
    doc2,          \* its run_derivation: the document built for the asset
    cycleBase      \* the clock reading and the status documents at the start of
                   \* the cycle both derivers ran last (<<>>: none yet)

rvars == <<dpc2, now_epoch2, example_com_event2, idx2, event2, doc2, cycleBase>>

\* The correlator (services/correlator/main.py) and what it talks to.
VARIABLES
    corrStream,    \* secplat.events.correlation: the payloads, message id = position
    corrGroup,     \* whether the consumer group "correlator" exists on the stream
    corrDelivered, \* the group's last-delivered id
    corrPending,   \* the group's pending entries list
    corrDlq,       \* a dead-letter stream for correlation events
    kpc,           \* main: where the correlator process is
    kmid,          \* main: id of the message being handled
    token,         \* the module global _token: <<>> is None, <<g>> a token of issue g
    apiGen,        \* the API: the issue of tokens it accepts at present
    requests,      \* the POST /incidents requests made so far, oldest first
    logins,        \* per message id: POST /auth/login requests made for it
    loginFailures, \* per message id: POST /auth/login requests for it that failed
    handled,       \* per message id: calls of handle_event
    kacks,         \* per message id: XACKs that succeeded
    kfaulted,      \* per message id: whether an XACK for it raised
    rejected,      \* POST /incidents requests the API refused for their token
                   \* since the last login
    apiErrors,     \* failed API requests so far
    kconnErrors    \* connection errors of the correlator's Redis calls so far

\* The findings API (services/api/app/routers/findings.py) and its database.
VARIABLES
    findingRows,   \* table findings: per finding_key, the number of rows with it
    suppressed,    \* whether is_asset_suppressed holds of the asset at present
    upc,           \* per upsert request: where it is in upsert_finding
    ukey,          \* per upsert request: body.finding_key
    existing,      \* per upsert request: whether its SELECT found a row
    created,       \* per finding_key: finding.created events published
    resubmits,     \* per finding_key: upserts that took the update branch
    conflicts,     \* per finding_key: INSERTs the unique index refused
    upserts,       \* upsert requests begun so far
    windowChanges  \* changes of the asset's suppression so far

fvars == <<findingRows, suppressed, upc, ukey, existing, created, resubmits,
           conflicts, upserts, windowChanges>>

\* The streams as the publishers' XADD ... MAXLEN leaves them
\* (secplat_queue/client.py publish, api/app/queue.py publish_*).
VARIABLES
    capped,        \* per stream: the ids of the entries it holds, oldest first
    appendedTo     \* per stream: entries appended so far (the id of the newest)

svars == <<capped, appendedTo>>

\* PATCH /incidents/{id}/status (services/api/app/routers/incidents.py) on one
\* existing incident.
VARIABLES
    incStatus,     \* incidents.status of the incident, as committed
    timeline,      \* the incident's state_change notes, as committed, oldest first
    ipc,           \* per request: where it is in update_incident_status
    ibody,         \* per request: body.status
    irow,          \* per request: row["status"], the status its SELECT returned
    rowLock,       \* the request holding the row's lock: <<>> or <<r>>
    transitions,   \* per committed update: the status it replaced and the new one
    refusals,      \* requests refused with 400 so far
    statusReqs     \* requests begun so far

ivars == <<incStatus, timeline, ipc, ibody, irow, rowLock, transitions, refusals,
           statusReqs>>

\* The notifier (services/notifier/main.py) and what it talks to.
VARIABLES
    notifyStream,    \* secplat.events.notify: the payloads, message id = position
    notifyGroup,     \* whether the consumer group "notifiers" exists on the stream
    notifyDelivered, \* the group's last-delivered id
    notifyPending,   \* the group's pending entries list
    slackUrl,        \* whether SLACK_WEBHOOK_URL is set
    twilio,          \* whether the four Twilio/WhatsApp settings are set
    npc,             \* main: where the notifier process is
    nmid,            \* main: id of the message being handled
    nassets,         \* handle_notify: down_assets of the message being handled
    nhandled,        \* per message id: calls of handle_notify
    slackCalls,      \* per message id: calls of send_slack
    whatsappCalls,   \* per message id: calls of send_whatsapp
    posts,           \* the HTTP requests made to the two channels, oldest first
    nacks,           \* per message id: XACKs that succeeded
    nraised,         \* per message id: calls of handle_notify that raised
    noutcome,        \* per message id: how its latest handle_notify call ended
    recreations,     \* times main recreated the group after NOGROUP
    groupLosses,     \* times the group was lost
    sendErrors,      \* failed channel requests so far
    nconnErrors      \* connection errors of the notifier's Redis calls so far

nvars == <<notifyStream, notifyGroup, notifyDelivered, notifyPending, slackUrl, twilio,
           npc, nmid, nassets, nhandled, slackCalls, whatsappCalls, posts, nacks,
           nraised, noutcome, recreations, groupLosses, sendErrors, nconnErrors>>

\* The parts of the API and the notifier.
avars == <<fvars, svars, ivars, nvars>>

kvars == <<corrStream, corrGroup, corrDelivered, corrPending, corrDlq, kpc, kmid,
           token, apiGen, requests, logins, loginFailures, handled, kacks,
           kfaulted, rejected, apiErrors, kconnErrors>>

jvars == <<jobs, scanStream, scanPending, wpc, wmsg, wjob, wsel,
           publishing, retrying, retryReqs, dbErrors, claimed, claimedById, announced,
           apiRaised>>

qvars == <<stream, dlq, dlqFor, delivered, pending, max_retries, cpc, mid, payload,
           retries, sleeps, hist, acks, faulted, connErrors>>

dvars == <<threshold, clock, ticks, latest, posted, statusDoc, dpc, now_epoch,
           example_com_event, idx, event, doc, putErrors, written, unrefreshed>>

ovars == <<group, restarts>>

vars == <<qvars, ovars, jvars, dvars, kvars, rvars, avars>>

\* What the steps of one part leave alone (the steps of the consume() loop
\* neither create nor destroy the group, nor start the process).
notQueue == <<ovars, jvars, dvars, kvars, rvars, avars>>
notJobs == <<qvars, ovars, dvars, kvars, rvars, avars>>
notDeriver == <<qvars, ovars, jvars, kvars, rvars, avars>>
notCorrelator == <<qvars, ovars, jvars, dvars, rvars, avars>>
services == <<qvars, ovars, jvars, dvars, kvars, rvars>>
notFindings == <<services, svars, ivars, nvars>>
notStreams == <<services, fvars, ivars, nvars>>
notIncidents == <<services, fvars, svars, nvars>>
notNotifier == <<services, fvars, svars, ivars>>

STREAM == "secplat.events"

MsgIds == 1..MaxMsgs

\* Field maps a producer publishes: a plain event, and one that already
\* carries provenance fields (an entry taken from a dead-letter stream).
PlainPayload == [body |-> "b"]
ProvenancePayload == [body |-> "b", original_stream |-> "other", original_id |-> 0]
Payloads == {PlainPayload, ProvenancePayload}

\* {"original_stream": stream, "original_id": mid, **payload}: a dict display,
\* later keys (those of payload) replace earlier ones.
DlqEntry(s, id, p) ==
    LET base == [original_stream |-> s, original_id |-> id]
    IN  [k \in DOMAIN base \cup DOMAIN p |->
            IF k \in DOMAIN p THEN p[k] ELSE base[k]]

\* A fixed wait, for the sensitivity analysis of the properties.
Pow2_Constant(n) == 2

RECURSIVE Pow2(_)
Pow2(n) == IF n = 0 THEN 1 ELSE 2 * Pow2(n - 1)

\* while retries <= max_retries
LoopContinues(r, mr) == r <= mr

\* Off-by-one variant of the exhaustion test, for the sensitivity analysis
\* of the properties.
RetriesExhausted_OffByOne(r, mr) == r >= mr

\* if retries > max_retries
RetriesExhausted(r, mr) == r > mr

QueueInit ==
    /\ stream = <<>>
    /\ dlq = <<>>
    /\ dlqFor = <<>>
    /\ delivered = 0
    /\ pending = {}
    /\ max_retries \in 0..MaxRetriesArg
    /\ cpc = "read"
    /\ mid = 0
    /\ payload = PlainPayload
    /\ retries = 0
    /\ sleeps = <<>>
    /\ hist = [m \in MsgIds |-> <<>>]
    /\ acks = [m \in MsgIds |-> 0]
    /\ faulted = [m \in MsgIds |-> FALSE]
    /\ connErrors = 0
    /\ group = TRUE
    /\ restarts = 0

\* publish(): XADD appends the message; the id is assigned by the transport.
Publish(p) ==
    /\ Len(stream) < MaxMsgs
    /\ stream' = Append(stream, p)
    /\ UNCHANGED <<dlq, dlqFor, delivered, pending, max_retries, cpc, mid, payload,
                   retries, sleeps, hist, acks, faulted, connErrors>>
    /\ UNCHANGED notQueue

\* XREADGROUP group consumer {stream: ">"} count=1: the next never-delivered
\* message enters the pending list; payload = dict(fields); retries = 0.
ReadMessage ==
    /\ cpc = "read"
    /\ group
    /\ delivered < Len(stream)
    /\ delivered' = delivered + 1
    /\ pending' = pending \cup {delivered + 1}
    /\ mid' = delivered + 1
    /\ payload' = stream[delivered + 1]
    /\ retries' = 0
    /\ sleeps' = <<>>
    /\ cpc' = IF LoopContinues(0, max_retries) THEN "handle" ELSE "read"
    /\ UNCHANGED <<stream, dlq, dlqFor, max_retries, hist, acks, faulted, connErrors>>
    /\ UNCHANGED notQueue

\* XREADGROUP returns nothing within block_ms: `continue`.
ReadEmpty ==
    /\ cpc = "read"
    /\ group
    /\ delivered = Len(stream)
    /\ UNCHANGED qvars
    /\ UNCHANGED notQueue

\* XREADGROUP raises redis.ConnectionError: outer except, sleep(5), loop.
ReadConnError ==
    /\ cpc = "read"
    /\ connErrors < MaxConnErrors
    /\ connErrors' = connErrors + 1
    /\ UNCHANGED <<stream, dlq, dlqFor, delivered, pending, max_retries, cpc, mid,
                   payload, retries, sleeps, hist, acks, faulted>>
    /\ UNCHANGED notQueue

\* The except-clause of the retry loop, entered with the exception raised by
\* handler() or by the XACK that follows it: retries += 1, then DLQ or sleep.
AfterException ==
    /\ retries' = retries + 1
    /\ cpc' = IF RetriesExhausted(retries + 1, max_retries) THEN "dlq_add" ELSE "backoff"

\* handler(payload) returns normally.
HandlerReturns ==
    /\ cpc = "handle"
    /\ hist' = [hist EXCEPT ![mid] = Append(@, "ok")]
    /\ cpc' = "ack"
    /\ UNCHANGED <<stream, dlq, dlqFor, delivered, pending, max_retries, mid, payload,
                   retries, sleeps, acks, faulted, connErrors>>
    /\ UNCHANGED notQueue

\* handler(payload) raises.
HandlerRaises ==
    /\ cpc = "handle"
    /\ hist' = [hist EXCEPT ![mid] = Append(@, "raise")]
    /\ AfterException
    /\ UNCHANGED <<stream, dlq, dlqFor, delivered, pending, max_retries, mid, payload,
                   sleeps, acks, faulted, connErrors>>
    /\ UNCHANGED notQueue

\* Variant of the acknowledgment without the `break` that follows it: the
\* while loop runs again, for the sensitivity analysis of the properties.
AckAfterHandler_NoBreak ==
    /\ cpc = "ack"
    /\ acks' = [acks EXCEPT ![mid] = @ + 1]
    /\ pending' = pending \ {mid}
    /\ cpc' = IF LoopContinues(retries, max_retries) THEN "handle" ELSE "read"
    /\ UNCHANGED <<stream, dlq, dlqFor, delivered, max_retries, mid, payload, retries,
                   sleeps, hist, faulted, connErrors>>
    /\ UNCHANGED notQueue

\* r.xack(stream, group, mid) after the handler returned; break.
AckAfterHandler ==
    /\ cpc = "ack"
    /\ acks' = [acks EXCEPT ![mid] = @ + 1]
    /\ pending' = pending \ {mid}
    /\ cpc' = "read"
    /\ UNCHANGED <<stream, dlq, dlqFor, delivered, max_retries, mid, payload, retries,
                   sleeps, hist, faulted, connErrors>>
    /\ UNCHANGED notQueue

\* That XACK raises redis.ConnectionError: it is inside the inner try, so the
\* inner `except Exception` takes it like a handler failure.
AckConnError ==
    /\ cpc = "ack"
    /\ connErrors < MaxConnErrors
    /\ connErrors' = connErrors + 1
    /\ faulted' = [faulted EXCEPT ![mid] = TRUE]
    /\ AfterException
    /\ UNCHANGED <<stream, dlq, dlqFor, delivered, pending, max_retries, mid, payload,
                   sleeps, hist, acks>>
    /\ UNCHANGED notQueue

\* time.sleep(2**retries), then the while condition is tested again.
Backoff ==
    /\ cpc = "backoff"
    /\ sleeps' = Append(sleeps, Pow2(retries))
    /\ cpc' = IF LoopContinues(retries, max_retries) THEN "handle" ELSE "read"
    /\ UNCHANGED <<stream, dlq, dlqFor, delivered, pending, max_retries, mid, payload,
                   retries, hist, acks, faulted, connErrors>>
    /\ UNCHANGED notQueue

\* r.xadd(dlq, {"original_stream": stream, "original_id": mid, **payload}).
DlqAdd ==
    /\ cpc = "dlq_add"
    /\ dlq' = Append(dlq, DlqEntry(STREAM, mid, payload))
    /\ dlqFor' = Append(dlqFor, mid)
    /\ cpc' = "dlq_ack"
    /\ UNCHANGED <<stream, delivered, pending, max_retries, mid, payload,
                   retries, sleeps, hist, acks, faulted, connErrors>>
    /\ UNCHANGED notQueue

\* That XADD raises redis.ConnectionError: raised inside the except clause, it
\* leaves both loops and reaches the outer except; sleep(5); read again.
DlqAddConnError ==
    /\ cpc = "dlq_add"
    /\ connErrors < MaxConnErrors
    /\ connErrors' = connErrors + 1
    /\ faulted' = [faulted EXCEPT ![mid] = TRUE]
    /\ cpc' = "read"
    /\ UNCHANGED <<stream, dlq, dlqFor, delivered, pending, max_retries, mid, payload,
                   retries, sleeps, hist, acks>>
    /\ UNCHANGED notQueue

\* r.xack(stream, group, mid) after the dead-letter append; the while
\* condition is now false and the loop goes on to the next read.
DlqAck ==
    /\ cpc = "dlq_ack"
    /\ acks' = [acks EXCEPT ![mid] = @ + 1]
    /\ pending' = pending \ {mid}
    /\ cpc' = IF LoopContinues(retries, max_retries) THEN "handle" ELSE "read"
    /\ UNCHANGED <<stream, dlq, dlqFor, delivered, max_retries, mid, payload, retries,
                   sleeps, hist, faulted, connErrors>>
    /\ UNCHANGED notQueue

\* That XACK raises redis.ConnectionError: outer except; sleep(5); read again.
DlqAckConnError ==
    /\ cpc = "dlq_ack"
    /\ connErrors < MaxConnErrors
    /\ connErrors' = connErrors + 1
    /\ faulted' = [faulted EXCEPT ![mid] = TRUE]
    /\ cpc' = "read"
    /\ UNCHANGED <<stream, dlq, dlqFor, delivered, pending, max_retries, mid, payload,
                   retries, sleeps, hist, acks>>
    /\ UNCHANGED notQueue

\* XREADGROUP raises redis.ResponseError (NOGROUP): the only handler around
\* the read is `except redis.ConnectionError`, so consume() raises.
ReadNoGroup ==
    /\ cpc = "read"
    /\ ~group
    /\ cpc' = "raised"
    /\ UNCHANGED <<stream, dlq, dlqFor, delivered, pending, max_retries, mid, payload,
                   retries, sleeps, hist, acks, faulted, connErrors>>
    /\ UNCHANGED notQueue

\* The transport loses the group (key deleted, data loss, XGROUP DESTROY)
\* while the consumer waits in XREADGROUP: the cursor and the pending list go
\* with it.
GroupLost ==
    /\ cpc = "read"
    /\ group
    /\ group' = FALSE
    /\ delivered' = 0
    /\ pending' = {}
    /\ UNCHANGED <<stream, dlq, dlqFor, max_retries, cpc, mid, payload, retries,
                   sleeps, hist, acks, faulted, connErrors, restarts>>
    /\ UNCHANGED <<jvars, dvars, kvars, rvars, avars>>

\* The process is stopped from outside after it read a message and before it
\* acknowledged it.
Stop ==
    /\ cpc \in {"handle", "ack", "backoff", "dlq_add", "dlq_ack"}
    /\ mid \in pending
    /\ restarts < MaxRestarts
    /\ cpc' = "stopped"
    /\ UNCHANGED <<stream, dlq, dlqFor, delivered, pending, max_retries, mid, payload,
                   retries, sleeps, hist, acks, faulted, connErrors, group, restarts>>
    /\ UNCHANGED <<jvars, dvars, kvars, rvars, avars>>

\* Variant of ensure_group that sets up the group anew in every case, for
\* the sensitivity analysis of the properties.
ensure_group_Recreate(exists, cursor, pend) ==
    [exists |-> TRUE, cursor |-> 0, pend |-> {}]

\* ensure_group(stream, group): XGROUP CREATE ... id="0" mkstream; the
\* BUSYGROUP error of an existing group is swallowed and the group is as it
\* was.  The result is the group's state after the call.
ensure_group(exists, cursor, pend) ==
    IF exists
    THEN [exists |-> TRUE, cursor |-> cursor, pend |-> pend]
    ELSE [exists |-> TRUE, cursor |-> 0, pend |-> {}]

\* consume() is called again with the same stream, group and consumer name:
\* ensure_group(), then the read loop.
Restart ==
    /\ cpc \in {"stopped", "raised"}
    /\ restarts < MaxRestarts
    /\ restarts' = restarts + 1
    /\ LET g == ensure_group(group, delivered, pending)
       IN  /\ group' = g.exists
           /\ delivered' = g.cursor
           /\ pending' = g.pend
    /\ cpc' = "read"
    /\ UNCHANGED <<stream, dlq, dlqFor, max_retries, mid, payload,
                   retries, sleeps, hist, acks, faulted, connErrors>>
    /\ UNCHANGED <<jvars, dvars, kvars, rvars, avars>>

\* One step of the consume() loop.
ConsumeStep ==
    \/ ReadMessage
    \/ ReadEmpty
    \/ ReadConnError
    \/ HandlerReturns
    \/ HandlerRaises
    \/ AckAfterHandler
    \/ AckConnError
    \/ Backoff
    \/ DlqAdd
    \/ DlqAddConnError
    \/ DlqAck
    \/ DlqAckConnError

(***************************************************************************)
(* Scan jobs: the jobs router (services/api/app/routers/jobs.py) and       *)
(* worker-web (services/worker-web/worker.py).  Every SQL statement is one *)
(* step, except fetch_job's UPDATE: under READ COMMITTED its sub-select is *)
(* evaluated on the statement's snapshot and the outer UPDATE, whose WHERE *)
(* names only the job_id, is applied to the row as it is once its lock is  *)
(* obtained, so other transactions can commit between the two.  The        *)
(* log_output, error and timestamp columns are left out.  API requests in  *)
(* flight are counted per job and stage; of the stream only the entries    *)
(* not yet delivered to group "workers" and the pending ones are kept.     *)
(***************************************************************************)
Workers == {"w1", "w2"}
JobIds == 1..MaxJobs
JobTypes == {"web_exposure", "score_recompute"}

NoJob == [status |-> "absent", job_type |-> "web_exposure", retry_count |-> 0]

\* Variant of the claim's WHERE clause without the status test, for the
\* sensitivity analysis of the properties.
ClaimByIdMatches_NoStatus(row) == row.status # "absent"

\* claim_job_by_id: WHERE job_id = %s AND status = 'queued'
ClaimByIdMatches(row) == row.status = "queued"

\* fetch_job's sub-select: SELECT job_id FROM scan_jobs WHERE status='queued'
\* AND job_type='web_exposure' ORDER BY created_at ASC LIMIT 1 (0: no row).
QueuedWebJobs(t) ==
    {j \in JobIds : t[j].status = "queued" /\ t[j].job_type = "web_exposure"}
FirstQueuedWebJob(t) ==
    IF QueuedWebJobs(t) = {} THEN 0
    ELSE CHOOSE j \in QueuedWebJobs(t) : \A k \in QueuedWebJobs(t) : j <= k

\* retry_job: if row["status"] not in ("failed", "done"): 400
Retryable(row) == row.status \in {"failed", "done"}

JobsInit ==
    /\ jobs = [j \in JobIds |-> NoJob]
    /\ scanStream = <<>>
    /\ scanPending = [j \in JobIds |-> 0]
    /\ wpc = [w \in Workers |-> "read"]
    /\ wmsg = [w \in Workers |-> 0]
    /\ wjob = [w \in Workers |-> 0]
    /\ wsel = [w \in Workers |-> 0]
    /\ publishing = [j \in JobIds |-> 0]
    /\ retrying = [j \in JobIds |-> 0]
    /\ retryReqs = 0
    /\ dbErrors = 0
    /\ claimed = [j \in JobIds |-> 0]
    /\ claimedById = [j \in JobIds |-> 0]
    /\ announced = [j \in JobIds |-> 0]
    /\ apiRaised = 0

\* create_job: INSERT ... VALUES (:t, :aid, :rb, 'queued'); commit.
CreateInsert(t) ==
    /\ \E j \in JobIds :
          /\ jobs[j].status = "absent"
          /\ \A k \in 1..(j - 1) : jobs[k].status # "absent"
          /\ jobs' = [jobs EXCEPT ![j] = [status |-> "queued", job_type |-> t,
                                          retry_count |-> 0]]
          /\ publishing' = [publishing EXCEPT ![j] = @ + 1]
    /\ UNCHANGED <<scanStream, scanPending, wpc, wmsg, wjob, wsel, retrying,
                   retryReqs, dbErrors, claimed, claimedById, announced, apiRaised>>
    /\ UNCHANGED notJobs

\* Variant of the publish that does not wait for the commit, for the
\* sensitivity analysis of the properties.
PublishScanJob_BeforeCommit(j) ==
    /\ Len(scanStream) < MaxJobs + MaxRetryReqs
    /\ scanStream' = Append(scanStream, j)
    /\ announced' = [announced EXCEPT ![j] = @ + 1]
    /\ UNCHANGED <<jobs, scanPending, wpc, wmsg, wjob, wsel, publishing, retrying,
                   retryReqs, dbErrors, claimed, claimedById, apiRaised>>
    /\ UNCHANGED notJobs

\* publish_scan_job(job_id, ...) after the commit, in create_job and in
\* retry_job: XADD to secplat.jobs.scan.
PublishScanJob(j) ==
    /\ publishing[j] > 0
    /\ publishing' = [publishing EXCEPT ![j] = @ - 1]
    /\ scanStream' = Append(scanStream, j)
    /\ announced' = [announced EXCEPT ![j] = @ + 1]
    /\ UNCHANGED <<jobs, scanPending, wpc, wmsg, wjob, wsel, retrying,
                   retryReqs, dbErrors, claimed, claimedById, apiRaised>>
    /\ UNCHANGED notJobs

\* publish_scan_job returns False: no REDIS_URL, or the XADD raised.
PublishScanJobFails(j) ==
    /\ publishing[j] > 0
    /\ publishing' = [publishing EXCEPT ![j] = @ - 1]
    /\ UNCHANGED <<jobs, scanStream, scanPending, wpc, wmsg, wjob, wsel, retrying,
                   retryReqs, dbErrors, claimed, claimedById, announced, apiRaised>>
    /\ UNCHANGED notJobs

\* publish_scan_job raises: _client() is called before the try, and
\* redis.from_url raises ValueError for a REDIS_URL without a redis://,
\* rediss:// or unix:// scheme (`import redis` raises when the package is
\* missing).  The request ends with the exception, after the commit.
PublishScanJobRaises(j) ==
    /\ publishing[j] > 0
    /\ apiRaised < MaxPublishRaises
    /\ publishing' = [publishing EXCEPT ![j] = @ - 1]
    /\ apiRaised' = apiRaised + 1
    /\ UNCHANGED <<jobs, scanStream, scanPending, wpc, wmsg, wjob, wsel, retrying,
                   retryReqs, dbErrors, claimed, claimedById, announced>>
    /\ UNCHANGED notJobs

\* retry_job: SELECT job_id, status; the row exists and is failed or done.
RetrySelect(j) ==
    /\ retryReqs < MaxRetryReqs
    /\ Retryable(jobs[j])
    /\ retrying' = [retrying EXCEPT ![j] = @ + 1]
    /\ retryReqs' = retryReqs + 1
    /\ UNCHANGED <<jobs, scanStream, scanPending, wpc, wmsg, wjob, wsel,
                   publishing, dbErrors, claimed, claimedById, announced, apiRaised>>
    /\ UNCHANGED notJobs

\* retry_job: 404 (no row) or 400 (status not failed/done); nothing changes.
RetryReject(j) ==
    /\ ~Retryable(jobs[j])
    /\ UNCHANGED jvars
    /\ UNCHANGED notJobs

\* retry_job: UPDATE scan_jobs SET status = 'queued', ..., retry_count =
\* retry_count + 1 WHERE job_id = :id; commit.
RetryUpdate(j) ==
    /\ retrying[j] > 0
    /\ retrying' = [retrying EXCEPT ![j] = @ - 1]
    /\ jobs' = [jobs EXCEPT ![j].status = "queued", ![j].retry_count = @ + 1]
    /\ claimed' = [claimed EXCEPT ![j] = 0]
    /\ claimedById' = [claimedById EXCEPT ![j] = 0]
    /\ publishing' = [publishing EXCEPT ![j] = @ + 1]
    /\ UNCHANGED <<scanStream, scanPending, wpc, wmsg, wjob, wsel, retryReqs,
                   dbErrors, announced, apiRaised>>
    /\ UNCHANGED notJobs

\* _read_one_from_stream: XREADGROUP workers consumer {STREAM_SCAN: ">"}
\* returns the next undelivered message, which becomes pending; job_id parses.
ReadStreamMsg(w) ==
    /\ wpc[w] = "read"
    /\ scanStream # <<>>
    /\ scanStream' = Tail(scanStream)
    /\ scanPending' = [scanPending EXCEPT ![Head(scanStream)] = @ + 1]
    /\ wmsg' = [wmsg EXCEPT ![w] = Head(scanStream)]
    /\ wpc' = [wpc EXCEPT ![w] = "claim"]
    /\ UNCHANGED <<jobs, wjob, wsel, publishing, retrying, retryReqs, dbErrors,
                   claimed, claimedById, announced, apiRaised>>
    /\ UNCHANGED notJobs

\* Variant of ReadStreamNone without the polling fallback, for the
\* sensitivity analysis of the properties.
ReadStreamNone_NoPoll(w) ==
    /\ wpc[w] = "read"
    /\ UNCHANGED jvars
    /\ UNCHANGED notJobs

\* _read_one_from_stream returns None: REDIS_URL unset, nothing within
\* 2 s, or the read raised.
ReadStreamNone(w) ==
    /\ wpc[w] = "read"
    /\ wpc' = [wpc EXCEPT ![w] = "fetch"]
    /\ UNCHANGED <<jobs, scanStream, scanPending, wmsg, wjob, wsel, publishing,
                   retrying, retryReqs, dbErrors, claimed, claimedById, announced,
                   apiRaised>>
    /\ UNCHANGED notJobs

\* job = claim_job_by_id(conn, job_id): one conditional UPDATE ... RETURNING.
ClaimById(w) ==
    /\ wpc[w] = "claim"
    /\ LET j == wmsg[w]
       IN  IF ClaimByIdMatches(jobs[j])
           THEN /\ jobs' = [jobs EXCEPT ![j].status = "running"]
                /\ wjob' = [wjob EXCEPT ![w] = j]
                /\ claimed' = [claimed EXCEPT ![j] = @ + 1]
                /\ claimedById' = [claimedById EXCEPT ![j] = @ + 1]
                /\ wpc' = [wpc EXCEPT ![w] = "run_stream"]
           ELSE /\ wjob' = [wjob EXCEPT ![w] = 0]
                /\ wpc' = [wpc EXCEPT ![w] = "ack"]
                /\ UNCHANGED <<jobs, claimed, claimedById>>
    /\ UNCHANGED <<scanStream, scanPending, wmsg, wsel, publishing, retrying,
                   retryReqs, dbErrors, announced, apiRaised>>
    /\ UNCHANGED notJobs

\* run_one_job runs to one of its finish_job calls: UPDATE scan_jobs SET
\* status = done|failed WHERE job_id = %s.  Back in main(): _ack_stream next
\* on the stream path, the next iteration on the polling path.
RunFinish(w, ok) ==
    /\ wpc[w] \in {"run_stream", "run_poll"}
    /\ jobs' = [jobs EXCEPT ![wjob[w]].status = IF ok THEN "done" ELSE "failed"]
    /\ wpc' = [wpc EXCEPT ![w] = IF wpc[w] = "run_stream" THEN "ack" ELSE "read"]
    /\ wjob' = [wjob EXCEPT ![w] = IF wpc[w] = "run_stream" THEN @ ELSE 0]
    /\ UNCHANGED <<scanStream, scanPending, wmsg, wsel, publishing, retrying,
                   retryReqs, dbErrors, claimed, claimedById, announced, apiRaised>>
    /\ UNCHANGED notJobs

\* A statement of run_one_job raises (set_job_log, get_asset, insert_finding,
\* finish_job): nothing catches it before main()'s `except Exception`, which
\* prints, sleeps 5 s and loops; _ack_stream is skipped.
RunRaises(w) ==
    /\ wpc[w] \in {"run_stream", "run_poll"}
    /\ dbErrors < MaxDbErrors
    /\ dbErrors' = dbErrors + 1
    /\ wpc' = [wpc EXCEPT ![w] = "read"]
    /\ wmsg' = [wmsg EXCEPT ![w] = 0]
    /\ wjob' = [wjob EXCEPT ![w] = 0]
    /\ UNCHANGED <<jobs, scanStream, scanPending, wsel, publishing, retrying,
                   retryReqs, claimed, claimedById, announced, apiRaised>>
    /\ UNCHANGED notJobs

\* _ack_stream(msg_id): XACK; then `if job is None` falls back to fetch_job.
AckStream(w) ==
    /\ wpc[w] = "ack"
    /\ scanPending' = [scanPending EXCEPT ![wmsg[w]] = @ - 1]
    /\ wpc' = [wpc EXCEPT ![w] = IF wjob[w] = 0 THEN "fetch" ELSE "read"]
    /\ wmsg' = [wmsg EXCEPT ![w] = 0]
    /\ wjob' = [wjob EXCEPT ![w] = 0]
    /\ UNCHANGED <<jobs, scanStream, wsel, publishing, retrying, retryReqs,
                   dbErrors, claimed, claimedById, announced, apiRaised>>
    /\ UNCHANGED notJobs

\* _ack_stream: the XACK raises and the exception is printed and dropped.
AckStreamFails(w) ==
    /\ wpc[w] = "ack"
    /\ wpc' = [wpc EXCEPT ![w] = IF wjob[w] = 0 THEN "fetch" ELSE "read"]
    /\ wmsg' = [wmsg EXCEPT ![w] = 0]
    /\ wjob' = [wjob EXCEPT ![w] = 0]
    /\ UNCHANGED <<jobs, scanStream, scanPending, wsel, publishing, retrying,
                   retryReqs, dbErrors, claimed, claimedById, announced, apiRaised>>
    /\ UNCHANGED notJobs

\* fetch_job, first half: the sub-select on the statement's snapshot.  With
\* no queued web_exposure job the UPDATE matches nothing: None, sleep(2).
FetchSelect(w) ==
    /\ wpc[w] = "fetch"
    /\ LET j == FirstQueuedWebJob(jobs)
       IN  /\ wsel' = [wsel EXCEPT ![w] = j]
           /\ wpc' = [wpc EXCEPT ![w] = IF j = 0 THEN "read" ELSE "fetch_upd"]
    /\ UNCHANGED <<jobs, scanStream, scanPending, wmsg, wjob, publishing,
                   retrying, retryReqs, dbErrors, claimed, claimedById, announced,
                   apiRaised>>
    /\ UNCHANGED notJobs

\* fetch_job, second half: UPDATE ... SET status='running' WHERE job_id =
\* <the selected id> RETURNING job_id: no test of the row's current status.
FetchUpdate(w) ==
    /\ wpc[w] = "fetch_upd"
    /\ jobs' = [jobs EXCEPT ![wsel[w]].status = "running"]
    /\ wjob' = [wjob EXCEPT ![w] = wsel[w]]
    /\ wsel' = [wsel EXCEPT ![w] = 0]
    /\ claimed' = [claimed EXCEPT ![wsel[w]] = @ + 1]
    /\ wpc' = [wpc EXCEPT ![w] = "run_poll"]
    /\ UNCHANGED <<scanStream, scanPending, wmsg, publishing, retrying,
                   retryReqs, dbErrors, claimedById, announced, apiRaised>>
    /\ UNCHANGED notJobs

\* One step of worker w's main() loop.
WorkerStep(w) ==
    \/ ReadStreamMsg(w)
    \/ ReadStreamNone(w)
    \/ ClaimById(w)
    \/ \E ok \in BOOLEAN : RunFinish(w, ok)
    \/ RunRaises(w)
    \/ AckStream(w)
    \/ AckStreamFails(w)
    \/ FetchSelect(w)
    \/ FetchUpdate(w)

\* create_job requests and the publish that ends create_job and retry_job.
CreateStep ==
    \/ \E t \in JobTypes : CreateInsert(t)
    \/ \E j \in JobIds : PublishScanJob(j)
    \/ \E j \in JobIds : PublishScanJobFails(j)
    \/ \E j \in JobIds : PublishScanJobRaises(j)

\* retry_job requests.
RetryStep ==
    \/ \E j \in JobIds : RetrySelect(j)
    \/ \E j \in JobIds : RetryReject(j)
    \/ \E j \in JobIds : RetryUpdate(j)

(***************************************************************************)
(* Deriver (services/deriver/main.py): run_derivation, one step per store  *)
(* round trip that writes or that starts a unit of work.  Optional values  *)
(* are sequences: <<>> is None, <<x>> is x.  An ISO-8601 timestamp of the  *)
(* second n is Iso(n); health events carry timestamps that                 *)
(* datetime.fromisoformat parses.  Of the event store only the newest      *)
(* health event of each key is kept (the searches ask for size 1, newest   *)
(* first).  The asset attributes copied into the document (name, type,     *)
(* environment, criticality, owner, owner_team) and latency_ms are left    *)
(* out.                                                                    *)
(***************************************************************************)
\* fetch_assets(): the assets index, in the order the search returns it.
Assets == <<"a1", "juice-shop">>
AssetKeys == {Assets[i] : i \in 1..Len(Assets)}
\* keys health events are written for
EventKeys == AssetKeys \cup {"example-com"}

\* Deployments: the default threshold and a shorter one.
Thresholds == {120, DefaultStaleThreshold}
\* Seconds the clock advances by in one step.
TickSteps == {1, 300}
\* The clock reading when the model starts.
StartEpoch == 1000
\* status and code of the health events the checks write
\* (the last one has no status field: event.get("status", "unknown"))
EventKinds == {[status |-> "up", code |-> 200],
               [status |-> "down", code |-> 503],
               [status |-> "unknown", code |-> 204]}

\* now.isoformat().replace("+00:00", "Z"), and the @timestamp of an event.
Iso(n) == <<"T", n>>

\* iso_to_epoch: None for None, int(dt.timestamp()) for a parsed timestamp.
iso_to_epoch(iso) == IF iso = <<>> THEN <<>> ELSE <<iso[2]>>

\* str(status_num)
NumStr(n) ==
    CASE n = 1 -> "1" [] n = 0 -> "0" [] n = -1 -> "-1" [] n = -2 -> "-2"

\* run_derivation: example_com_down_recent, from the newest example-com event.
ExampleComDownRecent(ev, now, thr) ==
    /\ ev # <<>>
    /\ ev[1].status = "down"
    /\ LET ep == iso_to_epoch(ev[1].ts)
       IN  /\ ep # <<>>
           /\ ep[1] # 0
           /\ (now - ep[1]) < thr * 2

\* run_derivation: status and status_num of an asset from its newest event.
DeriveStatus(asset_key, ev, now, thr, recent) ==
    IF ev = <<>>
    THEN [status |-> "unknown", status_num |-> -1]
    ELSE LET last_seen_epoch == iso_to_epoch(ev[1].ts)
         IN  IF last_seen_epoch = <<>>
             THEN [status |-> "unknown", status_num |-> -1]
             ELSE IF now - last_seen_epoch[1] > thr
                  THEN IF asset_key = "juice-shop" /\ recent
                       THEN [status |-> "down", status_num |-> -2]
                       ELSE [status |-> "stale", status_num |-> 0]
                  ELSE IF ev[1].code = 200 \/ ev[1].status = "up"
                       THEN [status |-> "up", status_num |-> 1]
                       ELSE [status |-> "down", status_num |-> -2]

\* staleness_seconds = (now_epoch - last_seen_epoch) if last_seen_epoch else 0
Staleness(ev, now) ==
    IF ev = <<>> THEN 0
    ELSE LET last_seen_epoch == iso_to_epoch(ev[1].ts)
         IN  IF last_seen_epoch # <<>> /\ last_seen_epoch[1] # 0
             THEN now - last_seen_epoch[1]
             ELSE 0

\* Variant that scores only status down as red, for the sensitivity analysis
\* of the properties.
Posture_RedOnlyWhenDown(status_num, staleness_seconds) ==
    IF status_num = -2
    THEN [posture_score |-> 0, posture_state |-> "red"]
    ELSE IF staleness_seconds > AmberAfterSeconds
         THEN [posture_score |-> 60, posture_state |-> "amber"]
         ELSE [posture_score |-> 100, posture_state |-> "green"]

\* posture_score and posture_state
Posture(status_num, staleness_seconds) ==
    IF status_num = -2 \/ status_num = -1
    THEN [posture_score |-> 0, posture_state |-> "red"]
    ELSE IF staleness_seconds > AmberAfterSeconds
         THEN [posture_score |-> 60, posture_state |-> "amber"]
         ELSE [posture_score |-> 100, posture_state |-> "green"]

\* get_prev_status: (str(status_num), last_status_change) of the stored
\* document, (None, None) without one.
get_prev_status(store, asset_key) ==
    IF store[asset_key] # <<>>
    THEN << <<NumStr(store[asset_key][1].status_num)>>,
            store[asset_key][1].last_status_change >>
    ELSE << <<>>, <<>> >>

\* Variants of the change test, for the sensitivity analysis of the properties.
StatusChanged_Never(prev_status_num, status_num) == FALSE
StatusChanged_Inverted(prev_status_num, status_num) ==
    prev_status_num # <<>> /\ NumStr(status_num) = prev_status_num[1]

\* prev_status_num is not None and str(status_num) != prev_status_num
StatusChanged(prev_status_num, status_num) ==
    prev_status_num # <<>> /\ NumStr(status_num) # prev_status_num[1]

\* Variant that clears last_status_change on a change, for the sensitivity
\* analysis of the properties.
LastStatusChange_ClearedOnChange(prev, status_num, last_seen) ==
    IF StatusChanged(prev[1], status_num)
    THEN <<>>
    ELSE IF prev[2] # <<>> THEN prev[2] ELSE last_seen

\* Variant with the two cases exchanged, for the sensitivity analysis of the
\* properties.
LastStatusChange_Swapped(prev, status_num, last_seen) ==
    IF StatusChanged(prev[1], status_num)
    THEN IF prev[2] # <<>> THEN prev[2] ELSE last_seen
    ELSE last_seen

\* last_status_change = prev_last_change or last_seen; replaced by last_seen
\* when the status changed.
LastStatusChange(prev, status_num, last_seen) ==
    IF StatusChanged(prev[1], status_num)
    THEN last_seen
    ELSE IF prev[2] # <<>> THEN prev[2] ELSE last_seen

\* doc = {...}
BuildDoc(asset_key, ev, now, thr, recent, prev) ==
    LET st == DeriveStatus(asset_key, ev, now, thr, recent)
        last_seen == IF ev = <<>> THEN <<>> ELSE ev[1].ts
        stale == Staleness(ev, now)
        po == Posture(st.status_num, stale)
    IN  [timestamp |-> Iso(now),
         asset_key |-> asset_key,
         status |-> st.status,
         status_num |-> st.status_num,
         code |-> IF ev = <<>> THEN <<>> ELSE <<ev[1].code>>,
         last_seen |-> last_seen,
         source_event_timestamp |-> last_seen,
         staleness_seconds |-> stale,
         posture_score |-> po.posture_score,
         posture_state |-> po.posture_state,
         last_status_change |-> LastStatusChange(prev, st.status_num, last_seen)]

\* The last two of a sequence of upserts extended by x.
Push2(seq, x) == IF Len(seq) < 2 THEN Append(seq, x) ELSE <<seq[2], x>>

DeriverInit ==
    /\ threshold \in Thresholds
    /\ clock = StartEpoch
    /\ ticks = 0
    /\ latest = [k \in EventKeys |-> <<>>]
    /\ posted = 0
    /\ statusDoc = [a \in AssetKeys |-> <<>>]
    /\ dpc = "start"
    /\ now_epoch = 0
    /\ example_com_event = <<>>
    /\ idx = 0
    /\ event = <<>>
    /\ doc = <<>>
    /\ putErrors = 0
    /\ written = [a \in AssetKeys |-> <<>>]
    /\ unrefreshed = FALSE

\* Time passes.
Tick(d) ==
    /\ ticks < MaxTicks
    /\ ticks' = ticks + 1
    /\ clock' = clock + d
    /\ UNCHANGED <<threshold, latest, posted, statusDoc, dpc, now_epoch,
                   example_com_event, idx, event, doc, putErrors, written, unrefreshed>>
    /\ UNCHANGED notDeriver

\* The kinds of events written for key k: every kind for a1; the checks of
\* juice-shop report it up and those of example-com report it down (the
\* combination run_derivation singles out).
KindsOf(k) ==
    IF k = "juice-shop" THEN {kind \in EventKinds : kind.status = "up"}
    ELSE IF k = "example-com" THEN {kind \in EventKinds : kind.status = "down"}
    ELSE EventKinds

\* A health check appends an event for key k, stamped with the current time;
\* it is newer than the key's events so far.
PostEvent(k, kind) ==
    /\ posted < MaxEvents
    /\ kind \in KindsOf(k)
    /\ IF latest[k] = <<>> THEN TRUE ELSE iso_to_epoch(latest[k][1].ts)[1] < clock
    /\ posted' = posted + 1
    /\ latest' = [latest EXCEPT ![k] =
                     <<[ts |-> Iso(clock), status |-> kind.status, code |-> kind.code]>>]
    /\ UNCHANGED <<threshold, clock, ticks, statusDoc, dpc, now_epoch,
                   example_com_event, idx, event, doc, putErrors, written, unrefreshed>>
    /\ UNCHANGED notDeriver

\* run_derivation starts: now, fetch_assets(), fetch_example_com_event().
BeginCycle ==
    /\ dpc = "sleep"
    /\ now_epoch' = clock
    /\ example_com_event' = latest["example-com"]
    /\ idx' = 1
    /\ dpc' = "derive"
    /\ UNCHANGED <<threshold, clock, ticks, latest, posted, statusDoc, event, doc,
                   putErrors, written, unrefreshed>>
    /\ UNCHANGED notDeriver

\* Loop body up to the upsert: fetch_latest_health_event, the status and
\* posture computation, get_prev_status, doc.
DeriveAsset ==
    /\ dpc = "derive"
    /\ idx <= Len(Assets)
    /\ LET asset_key == Assets[idx]
           ev == latest[asset_key]
           recent == ExampleComDownRecent(example_com_event, now_epoch, threshold)
       IN  /\ event' = ev
           /\ doc' = <<BuildDoc(asset_key, ev, now_epoch, threshold, recent,
                                get_prev_status(statusDoc, asset_key))>>
    /\ dpc' = "put"
    /\ UNCHANGED <<threshold, clock, ticks, latest, posted, statusDoc, now_epoch,
                   example_com_event, idx, putErrors, written, unrefreshed>>
    /\ UNCHANGED notDeriver

\* _put(f"/{STATUS_INDEX}/_doc/{asset_key}", doc) replaces the stored document.
Upsert ==
    /\ dpc = "put"
    /\ LET asset_key == Assets[idx]
       IN  /\ statusDoc' = [statusDoc EXCEPT ![asset_key] = doc]
           /\ written' = [written EXCEPT ![asset_key] =
                            Push2(@, [inputs |-> [now |-> now_epoch, event |-> event,
                                                  example_com_event |-> example_com_event],
                                      doc |-> doc[1]])]
    /\ idx' = idx + 1
    /\ event' = <<>>
    /\ doc' = <<>>
    /\ dpc' = "derive"
    /\ unrefreshed' = TRUE
    /\ UNCHANGED <<threshold, clock, ticks, latest, posted, now_epoch,
                   example_com_event, putErrors>>
    /\ UNCHANGED notDeriver

\* The _put raises: a warning is logged and the loop goes on.
UpsertFails ==
    /\ dpc = "put"
    /\ putErrors < MaxPutErrors
    /\ putErrors' = putErrors + 1
    /\ idx' = idx + 1
    /\ event' = <<>>
    /\ doc' = <<>>
    /\ dpc' = "derive"
    /\ UNCHANGED <<threshold, clock, ticks, latest, posted, statusDoc, now_epoch,
                   example_com_event, written, unrefreshed>>
    /\ UNCHANGED notDeriver

\* After the last asset: the _refresh request (a failure of it is logged and
\* dropped), "derivation done"; main() sleeps.
EndCycle ==
    /\ dpc = "derive"
    /\ idx > Len(Assets)
    /\ dpc' = "sleep"
    /\ idx' = 0
    /\ now_epoch' = 0
    /\ example_com_event' = <<>>
    /\ unrefreshed' = FALSE
    /\ UNCHANGED <<threshold, clock, ticks, latest, posted, statusDoc, event, doc,
                   putErrors, written>>
    /\ UNCHANGED notDeriver

\* main(): ensure_status_index() finds or creates the status index.
EnsureIndex ==
    /\ dpc = "start"
    /\ dpc' = "sleep"
    /\ UNCHANGED <<threshold, clock, ticks, latest, posted, statusDoc, now_epoch,
                   example_com_event, idx, event, doc, putErrors, written, unrefreshed>>
    /\ UNCHANGED notDeriver

\* ensure_status_index() raises (store unreachable: httpx.ConnectError, or a
\* status other than 404): the call is outside main()'s try, main() raises.
EnsureIndexFails ==
    /\ dpc = "start"
    /\ putErrors < MaxPutErrors
    /\ putErrors' = putErrors + 1
    /\ dpc' = "terminated"
    /\ UNCHANGED <<threshold, clock, ticks, latest, posted, statusDoc, now_epoch,
                   example_com_event, idx, event, doc, written, unrefreshed>>
    /\ UNCHANGED notDeriver

\* fetch_assets() or fetch_example_com_event() raises: run_derivation raises,
\* main() logs the exception and sleeps.
BeginCycleFails ==
    /\ dpc = "sleep"
    /\ putErrors < MaxPutErrors
    /\ putErrors' = putErrors + 1
    /\ UNCHANGED <<threshold, clock, ticks, latest, posted, statusDoc, dpc, now_epoch,
                   example_com_event, idx, event, doc, written, unrefreshed>>
    /\ UNCHANGED notDeriver

\* fetch_latest_health_event() or get_prev_status() raises for the asset:
\* nothing in the loop body catches it, run_derivation raises, main() logs
\* the exception and sleeps.
DeriveAssetFails ==
    /\ dpc = "derive"
    /\ idx <= Len(Assets)
    /\ putErrors < MaxPutErrors
    /\ putErrors' = putErrors + 1
    /\ dpc' = "sleep"
    /\ idx' = 0
    /\ now_epoch' = 0
    /\ example_com_event' = <<>>
    /\ UNCHANGED <<threshold, clock, ticks, latest, posted, statusDoc, event, doc,
                   written, unrefreshed>>
    /\ UNCHANGED notDeriver

\* One step of the deriver process.
DeriverStep ==
    \/ EnsureIndex
    \/ EnsureIndexFails
    \/ BeginCycle
    \/ BeginCycleFails
    \/ DeriveAssetFails
    \/ DeriveAsset
    \/ Upsert
    \/ UpsertFails
    \/ EndCycle

(***************************************************************************)
(* Two deriver processes on the same event store and status index.  Both   *)
(* start a cycle at the same clock reading; events are not written and the *)
(* clock does not advance until both cycles have ended.                    *)
(***************************************************************************)
SecondDeriverInit ==
    /\ dpc2 = "sleep"
    /\ now_epoch2 = 0
    /\ example_com_event2 = <<>>
    /\ idx2 = 0
    /\ event2 = <<>>
    /\ doc2 = <<>>
    /\ cycleBase = <<>>

\* Both processes enter run_derivation: now, fetch_assets(),
\* fetch_example_com_event().
BeginBoth ==
    /\ dpc = "sleep"
    /\ dpc2 = "sleep"
    /\ now_epoch' = clock
    /\ example_com_event' = latest["example-com"]
    /\ idx' = 1
    /\ dpc' = "derive"
    /\ now_epoch2' = clock
    /\ example_com_event2' = latest["example-com"]
    /\ idx2' = 1
    /\ dpc2' = "derive"
    /\ cycleBase' = <<[now |-> clock, docs |-> statusDoc]>>
    /\ UNCHANGED <<threshold, clock, ticks, latest, posted, statusDoc, event, doc,
                   putErrors, written, unrefreshed, event2, doc2>>
    /\ UNCHANGED <<qvars, ovars, jvars, kvars, avars>>

\* The second process: loop body up to the upsert.
DeriveAsset2 ==
    /\ dpc2 = "derive"
    /\ idx2 <= Len(Assets)
    /\ LET asset_key == Assets[idx2]
           ev == latest[asset_key]
           recent == ExampleComDownRecent(example_com_event2, now_epoch2, threshold)
       IN  /\ event2' = ev
           /\ doc2' = <<BuildDoc(asset_key, ev, now_epoch2, threshold, recent,
                                 get_prev_status(statusDoc, asset_key))>>
    /\ dpc2' = "put"
    /\ UNCHANGED <<now_epoch2, example_com_event2, idx2, cycleBase>>
    /\ UNCHANGED <<qvars, ovars, jvars, dvars, kvars, avars>>

\* The second process: _put replaces the stored document.
Upsert2 ==
    /\ dpc2 = "put"
    /\ LET asset_key == Assets[idx2]
       IN  /\ statusDoc' = [statusDoc EXCEPT ![asset_key] = doc2]
           /\ written' = [written EXCEPT ![asset_key] =
                            Push2(@, [inputs |-> [now |-> now_epoch2, event |-> event2,
                                                  example_com_event |->
                                                      example_com_event2],
                                      doc |-> doc2[1]])]
    /\ unrefreshed' = TRUE
    /\ idx2' = idx2 + 1
    /\ event2' = <<>>
    /\ doc2' = <<>>
    /\ dpc2' = "derive"
    /\ UNCHANGED <<threshold, clock, ticks, latest, posted, dpc, now_epoch,
                   example_com_event, idx, event, doc, putErrors>>
    /\ UNCHANGED <<now_epoch2, example_com_event2, cycleBase>>
    /\ UNCHANGED <<qvars, ovars, jvars, kvars, avars>>

\* The second process: after the last asset, _refresh; its main() sleeps.
EndCycle2 ==
    /\ dpc2 = "derive"
    /\ idx2 > Len(Assets)
    /\ dpc2' = "sleep"
    /\ idx2' = 0
    /\ now_epoch2' = 0
    /\ example_com_event2' = <<>>
    /\ unrefreshed' = FALSE
    /\ UNCHANGED <<threshold, clock, ticks, latest, posted, statusDoc, dpc, now_epoch,
                   example_com_event, idx, event, doc, putErrors, written>>
    /\ UNCHANGED <<event2, doc2, cycleBase>>
    /\ UNCHANGED <<qvars, ovars, jvars, kvars, avars>>

\* Time passes, resp. a health check reports, while no cycle is running.
QuietTick(d) == dpc = "sleep" /\ dpc2 = "sleep" /\ Tick(d)
QuietPostEvent(k, kind) == dpc = "sleep" /\ dpc2 = "sleep" /\ PostEvent(k, kind)

(***************************************************************************)
(* The correlator (services/correlator/main.py).                           *)
(***************************************************************************)
CorrMsgIds == 1..MaxCorrMsgs

\* The fields of json.dumps(down_assets) as the correlator receives them: a
\* JSON list, a text that is no JSON, or no field at all.
JsonList(xs) == [kind |-> "json_list", val |-> xs]
BareText(x) == [kind |-> "text", val |-> <<x>>]
Absent == [kind |-> "absent", val |-> <<>>]

CorrPayload(et, ak, fk, sev, da) ==
    [event_type |-> et, asset_key |-> ak, finding_key |-> fk, severity |-> sev,
     down_assets |-> da]

\* The correlation events of the model; a field the publisher left out is "".
CorrPayloads ==
    { CorrPayload("finding.created", "a1", "f1", "critical", Absent),
      CorrPayload("finding.created", "a1", "", "", Absent),
      CorrPayload("finding.created", "", "f1", "critical", Absent),
      CorrPayload("alert.triggered", "", "", "", JsonList(<<"a1", "a2">>)),
      CorrPayload("alert.triggered", "", "", "",
                  JsonList(<<"a1", "a2", "a3", "a4", "a5", "a6">>)),
      CorrPayload("alert.triggered", "", "", "", Absent),
      CorrPayload("", "a1", "f1", "critical", Absent),
      CorrPayload(" ", "a1", "f1", "critical", Absent),
      CorrPayload("asset.created", "a1", "", "", Absent) }

\* str.strip() on the strings of the model.
Strip(s) == IF s = " " THEN "" ELSE s

\* handle_event: the down_assets list of an alert.triggered payload.
ParseDownAssets(raw) ==
    IF raw.kind = "json_list" THEN raw.val
    ELSE IF raw.kind = "text"
         THEN IF Strip(raw.val[1]) = "" THEN <<>> ELSE raw.val
         ELSE <<>>

\* handle_event acknowledges every event; the variants below are
\* alternatives for the sensitivity analysis of the properties.
NeedsIncident_Always(p) == TRUE

IncidentRequest_MediumSeverity(p) ==
    [title |-> <<>>, severity |-> "medium",
     asset_keys |-> IF Strip(p.event_type) = "finding.created"
                    THEN <<Strip(p.asset_key)>> ELSE p.down_assets.val]

AckAfterCreate_OnlyOnSuccess(inc) == inc

\* handle_event: whether the payload reaches a create_incident call.
NeedsIncident(p) ==
    LET event_type == Strip(p.event_type) IN
    IF event_type = "" THEN FALSE
    ELSE IF event_type = "finding.created" THEN Strip(p.asset_key) # ""
    ELSE IF event_type = "alert.triggered"
         THEN ParseDownAssets(p.down_assets) # <<>>
    ELSE FALSE

\* handle_event: whether the message is acknowledged after create_incident
\* returned (inc: whether it returned an incident).
AckAfterCreate(inc) == TRUE

FirstFive(xs) == SubSeq(xs, 1, IF Len(xs) > 5 THEN 5 ELSE Len(xs))

\* handle_event: the arguments of its create_incident call.
IncidentRequest(p) ==
    IF Strip(p.event_type) = "finding.created"
    THEN [title |-> <<"Finding", IF Strip(p.finding_key) = "" THEN "unknown"
                                  ELSE Strip(p.finding_key),
                      Strip(p.asset_key)>>,
          severity |-> IF Strip(p.severity) = "" THEN "medium" ELSE Strip(p.severity),
          asset_keys |-> <<Strip(p.asset_key)>>]
    ELSE [title |-> <<"Assets down", FirstFive(ParseDownAssets(p.down_assets)),
                      Len(ParseDownAssets(p.down_assets)) > 5>>,
          severity |-> "high",
          asset_keys |-> ParseDownAssets(p.down_assets)]

CorrelatorInit ==
    /\ corrStream = <<>>
    /\ corrGroup = TRUE
    /\ corrDelivered = 0
    /\ corrPending = {}
    /\ corrDlq = <<>>
    /\ kpc = "read"
    /\ kmid = 0
    /\ token = <<>>
    /\ apiGen = 0
    /\ requests = <<>>
    /\ logins = [m \in CorrMsgIds |-> 0]
    /\ loginFailures = [m \in CorrMsgIds |-> 0]
    /\ handled = [m \in CorrMsgIds |-> 0]
    /\ kacks = [m \in CorrMsgIds |-> 0]
    /\ kfaulted = [m \in CorrMsgIds |-> FALSE]
    /\ rejected = 0
    /\ apiErrors = 0
    /\ kconnErrors = 0

\* publish_correlation_event: XADD to the correlation stream.
CorrPublish(p) ==
    /\ Len(corrStream) < MaxCorrMsgs
    /\ corrStream' = Append(corrStream, p)
    /\ UNCHANGED <<corrGroup, corrDelivered, corrPending, corrDlq, kpc, kmid, token,
                   apiGen, requests, logins, loginFailures, handled, kacks, kfaulted, rejected,
                   apiErrors, kconnErrors>>
    /\ UNCHANGED notCorrelator

\* The tokens issued so far pass their "exp": the API answers 401 to them.
TokenExpires ==
    /\ apiGen < MaxTokenExpiries
    /\ apiGen' = apiGen + 1
    /\ UNCHANGED <<corrStream, corrGroup, corrDelivered, corrPending, corrDlq, kpc,
                   kmid, token, requests, logins, loginFailures, handled, kacks, kfaulted, rejected,
                   apiErrors, kconnErrors>>
    /\ UNCHANGED notCorrelator

\* The group disappears from the stream (Redis restarted without its data,
\* the stream deleted): its cursor and pending list go with it.
CorrGroupLost ==
    /\ kpc = "read"
    /\ corrGroup
    /\ corrGroup' = FALSE
    /\ corrDelivered' = 0
    /\ corrPending' = {}
    /\ UNCHANGED <<corrStream, corrDlq, kpc, kmid, token, apiGen, requests, logins, loginFailures,
                   handled, kacks, kfaulted, rejected, apiErrors, kconnErrors>>
    /\ UNCHANGED notCorrelator

\* main: XREADGROUP ">" returns the next message never delivered.
CorrRead ==
    /\ kpc = "read"
    /\ corrGroup
    /\ corrDelivered < Len(corrStream)
    /\ corrDelivered' = corrDelivered + 1
    /\ corrPending' = corrPending \cup {corrDelivered + 1}
    /\ kmid' = corrDelivered + 1
    /\ kpc' = "handle"
    /\ UNCHANGED <<corrStream, corrGroup, corrDlq, token, apiGen, requests, logins, loginFailures,
                   handled, kacks, kfaulted, rejected, apiErrors, kconnErrors>>
    /\ UNCHANGED notCorrelator

\* main: XREADGROUP times out with nothing new: `continue`.
CorrReadEmpty ==
    /\ kpc = "read"
    /\ corrGroup
    /\ corrDelivered = Len(corrStream)
    /\ UNCHANGED kvars
    /\ UNCHANGED notCorrelator

\* main: XREADGROUP raises redis.ConnectionError: log, sleep, next iteration.
CorrReadConnError ==
    /\ kpc = "read"
    /\ kconnErrors < MaxCorrConnErrors
    /\ kconnErrors' = kconnErrors + 1
    /\ UNCHANGED <<corrStream, corrGroup, corrDelivered, corrPending, corrDlq, kpc,
                   kmid, token, apiGen, requests, logins, loginFailures, handled, kacks, kfaulted,
                   rejected, apiErrors>>
    /\ UNCHANGED notCorrelator

\* main: XREADGROUP raises redis.ResponseError (NOGROUP), which the loop's
\* `except redis.ConnectionError` does not catch: main() ends.
CorrReadNoGroup ==
    /\ kpc = "read"
    /\ ~corrGroup
    /\ kpc' = "raised"
    /\ UNCHANGED <<corrStream, corrGroup, corrDelivered, corrPending, corrDlq, kmid,
                   token, apiGen, requests, logins, loginFailures, handled, kacks, kfaulted,
                   rejected, apiErrors, kconnErrors>>
    /\ UNCHANGED notCorrelator

\* handle_event up to its first request: the event either needs no incident
\* (acknowledge) or create_incident is called, which calls get_token, which
\* returns the cached _token if there is one and logs in otherwise.
HandleEvent ==
    /\ kpc = "handle"
    /\ handled' = [handled EXCEPT ![kmid] = @ + 1]
    /\ kpc' = IF ~NeedsIncident(corrStream[kmid]) THEN "ack"
              ELSE IF token = <<>> THEN "login"
              ELSE "create"
    /\ UNCHANGED <<corrStream, corrGroup, corrDelivered, corrPending, corrDlq, kmid,
                   token, apiGen, requests, logins, loginFailures, kacks, kfaulted, rejected,
                   apiErrors, kconnErrors>>
    /\ UNCHANGED notCorrelator

\* get_token: POST /auth/login answers with an access token, kept in _token.
GetToken ==
    /\ kpc = "login"
    /\ logins' = [logins EXCEPT ![kmid] = @ + 1]
    /\ token' = <<apiGen>>
    /\ rejected' = 0
    /\ kpc' = "create"
    /\ UNCHANGED <<corrStream, corrGroup, corrDelivered, corrPending, corrDlq, kmid,
                   apiGen, requests, loginFailures, handled, kacks, kfaulted,
                   apiErrors, kconnErrors>>
    /\ UNCHANGED notCorrelator

\* get_token: the login request fails; get_token returns None and
\* create_incident returns None without a request.
GetTokenFails ==
    /\ kpc = "login"
    /\ apiErrors < MaxApiErrors
    /\ apiErrors' = apiErrors + 1
    /\ logins' = [logins EXCEPT ![kmid] = @ + 1]
    /\ loginFailures' = [loginFailures EXCEPT ![kmid] = @ + 1]
    /\ kpc' = IF AckAfterCreate(FALSE) THEN "ack" ELSE "read"
    /\ UNCHANGED <<corrStream, corrGroup, corrDelivered, corrPending, corrDlq, kmid,
                   token, apiGen, requests, handled, kacks, kfaulted, rejected,
                   kconnErrors>>
    /\ UNCHANGED notCorrelator

\* create_incident: POST /incidents with the Bearer token.  The API accepts
\* the request when the token is one it still accepts and answers 401
\* otherwise, which raise_for_status turns into the `except` branch.
CreateIncident ==
    /\ kpc = "create"
    /\ LET ok == token[1] = apiGen IN
        /\ requests' = Append(requests, [for |-> kmid, token |-> token[1],
                                         body |-> IncidentRequest(corrStream[kmid]),
                                         accepted |-> ok])
        /\ rejected' = IF ok THEN rejected ELSE rejected + 1
        /\ kpc' = IF AckAfterCreate(ok) THEN "ack" ELSE "read"
    /\ UNCHANGED <<corrStream, corrGroup, corrDelivered, corrPending, corrDlq, kmid,
                   token, apiGen, logins, loginFailures, handled, kacks, kfaulted, apiErrors,
                   kconnErrors>>
    /\ UNCHANGED notCorrelator

\* create_incident: the request fails for another reason (timeout, 5xx).
CreateIncidentFails ==
    /\ kpc = "create"
    /\ apiErrors < MaxApiErrors
    /\ apiErrors' = apiErrors + 1
    /\ requests' = Append(requests, [for |-> kmid, token |-> token[1],
                                     body |-> IncidentRequest(corrStream[kmid]),
                                     accepted |-> FALSE])
    /\ kpc' = IF AckAfterCreate(FALSE) THEN "ack" ELSE "read"
    /\ UNCHANGED <<corrStream, corrGroup, corrDelivered, corrPending, corrDlq, kmid,
                   token, apiGen, logins, loginFailures, handled, kacks, kfaulted, rejected,
                   kconnErrors>>
    /\ UNCHANGED notCorrelator

\* handle_event: r.xack(STREAM, GROUP, mid).
CorrAck ==
    /\ kpc = "ack"
    /\ corrPending' = corrPending \ {kmid}
    /\ kacks' = [kacks EXCEPT ![kmid] = @ + 1]
    /\ kpc' = "read"
    /\ UNCHANGED <<corrStream, corrGroup, corrDelivered, corrDlq, kmid, token, apiGen,
                   requests, logins, loginFailures, handled, kfaulted, rejected, apiErrors,
                   kconnErrors>>
    /\ UNCHANGED notCorrelator

\* handle_event: the XACK raises redis.ConnectionError; main's
\* `except Exception` around handle_event logs it and the loop goes on.
CorrAckFails ==
    /\ kpc = "ack"
    /\ kconnErrors < MaxCorrConnErrors
    /\ kconnErrors' = kconnErrors + 1
    /\ kfaulted' = [kfaulted EXCEPT ![kmid] = TRUE]
    /\ kpc' = "read"
    /\ UNCHANGED <<corrStream, corrGroup, corrDelivered, corrPending, corrDlq, kmid,
                   token, apiGen, requests, logins, loginFailures, handled, kacks, rejected,
                   apiErrors>>
    /\ UNCHANGED notCorrelator

CorrelatorStep ==
    \/ CorrRead
    \/ CorrReadEmpty
    \/ CorrReadConnError
    \/ CorrReadNoGroup
    \/ HandleEvent
    \/ GetToken
    \/ GetTokenFails
    \/ CreateIncident
    \/ CreateIncidentFails
    \/ CorrAck
    \/ CorrAckFails

(***************************************************************************)
(* Findings: POST /findings (upsert_finding), concurrent requests.  Each    *)
(* request runs in its own database session at READ COMMITTED.              *)
(***************************************************************************)
UpsertReqs == {"u1", "u2"}
FindingKeys == {"fk1", "fk2"}

\* For the sensitivity analysis of the properties: a findings table without
\* the unique index on finding_key.
InsertAccepted_NoIndex(rows, k) == TRUE

\* idx_findings_finding_key: an INSERT is accepted when no row has the key.
InsertAccepted(rows, k) ==
    rows[k] = 0

FindingsInit ==
    /\ findingRows = [k \in FindingKeys |-> 0]
    /\ suppressed = FALSE
    /\ upc = [u \in UpsertReqs |-> "idle"]
    /\ ukey = [u \in UpsertReqs |-> "fk1"]
    /\ existing = [u \in UpsertReqs |-> FALSE]
    /\ created = [k \in FindingKeys |-> 0]
    /\ resubmits = [k \in FindingKeys |-> 0]
    /\ conflicts = [k \in FindingKeys |-> 0]
    /\ upserts = 0
    /\ windowChanges = 0

\* A maintenance window or suppression rule of the asset begins or ends.
SuppressionChanges ==
    /\ windowChanges < MaxWindowChanges
    /\ windowChanges' = windowChanges + 1
    /\ suppressed' = ~suppressed
    /\ UNCHANGED <<findingRows, upc, ukey, existing, created, resubmits, conflicts,
                   upserts>>
    /\ UNCHANGED notFindings

\* The asset is resolved and the row is looked up by finding_key.
UpsertSelect(u, k) ==
    /\ upc[u] = "idle"
    /\ upserts < MaxUpserts
    /\ upserts' = upserts + 1
    /\ ukey' = [ukey EXCEPT ![u] = k]
    /\ existing' = [existing EXCEPT ![u] = findingRows[k] > 0]
    /\ upc' = [upc EXCEPT ![u] = "selected"]
    /\ UNCHANGED <<findingRows, suppressed, created, resubmits, conflicts,
                   windowChanges>>
    /\ UNCHANGED notFindings

\* if existing: UPDATE, commit, return updated = True.
UpsertUpdate(u) ==
    /\ upc[u] = "selected"
    /\ existing[u]
    /\ resubmits' = [resubmits EXCEPT ![ukey[u]] = @ + 1]
    /\ upc' = [upc EXCEPT ![u] = "idle"]
    /\ UNCHANGED <<findingRows, suppressed, ukey, existing, created, conflicts,
                   upserts, windowChanges>>
    /\ UNCHANGED notFindings

\* else: INSERT and commit.
UpsertInsert(u) ==
    /\ upc[u] = "selected"
    /\ ~existing[u]
    /\ InsertAccepted(findingRows, ukey[u])
    /\ findingRows' = [findingRows EXCEPT ![ukey[u]] = @ + 1]
    /\ upc' = [upc EXCEPT ![u] = "inserted"]
    /\ UNCHANGED <<suppressed, ukey, existing, created, resubmits, conflicts,
                   upserts, windowChanges>>
    /\ UNCHANGED notFindings

\* The INSERT raises IntegrityError: another request inserted the key after
\* this one's SELECT.  The request ends with an error.
UpsertInsertRefused(u) ==
    /\ upc[u] = "selected"
    /\ ~existing[u]
    /\ ~InsertAccepted(findingRows, ukey[u])
    /\ conflicts' = [conflicts EXCEPT ![ukey[u]] = @ + 1]
    /\ upc' = [upc EXCEPT ![u] = "idle"]
    /\ UNCHANGED <<findingRows, suppressed, ukey, existing, created, resubmits,
                   upserts, windowChanges>>
    /\ UNCHANGED notFindings

\* if ak and not is_asset_suppressed(db, ak): publish_correlation_event(...).
UpsertPublish(u) ==
    /\ upc[u] = "inserted"
    /\ ~suppressed
    /\ created' = [created EXCEPT ![ukey[u]] = @ + 1]
    /\ upc' = [upc EXCEPT ![u] = "idle"]
    /\ UNCHANGED <<findingRows, suppressed, ukey, existing, resubmits, conflicts,
                   upserts, windowChanges>>
    /\ UNCHANGED notFindings

\* The asset is suppressed, or publish_correlation_event returned False:
\* nothing is appended.
UpsertNoPublish(u) ==
    /\ upc[u] = "inserted"
    /\ upc' = [upc EXCEPT ![u] = "idle"]
    /\ UNCHANGED <<findingRows, suppressed, ukey, existing, created, resubmits,
                   conflicts, upserts, windowChanges>>
    /\ UNCHANGED notFindings

UpsertStep(u) ==
    \/ \E k \in FindingKeys : UpsertSelect(u, k)
    \/ UpsertUpdate(u)
    \/ UpsertInsert(u)
    \/ UpsertInsertRefused(u)
    \/ UpsertPublish(u)
    \/ UpsertNoPublish(u)

(***************************************************************************)
(* Capped streams: r.xadd(stream, msg, maxlen=N).  redis-py sends MAXLEN ~  *)
(* N unless approximate=False is passed, and the server then evicts only    *)
(* whole nodes of the stream, and only while at least N entries remain.     *)
(***************************************************************************)
CappedStreams ==
    {"secplat.jobs.scan", "secplat.events.notify", "secplat.events.correlation"}

RECURSIVE TrimApproximate(_)
RECURSIVE DropOldest(_, _)

\* For the sensitivity analysis of the properties: XADD without MAXLEN.
Trim_NoMaxlen(entries) == entries

\* The entries without the n oldest ones.
DropOldest(entries, n) ==
    IF n = 0 \/ entries = <<>> THEN entries ELSE DropOldest(Tail(entries), n - 1)

\* MAXLEN ~ StreamMaxLen: the oldest node is evicted as long as at least
\* StreamMaxLen entries remain without it.
TrimApproximate(entries) ==
    IF Len(entries) - NodeEntries >= StreamMaxLen
    THEN TrimApproximate(DropOldest(entries, NodeEntries))
    ELSE entries

\* The trimming that xadd(..., maxlen=N) asks for.
Trim(entries) ==
    TrimApproximate(entries)

StreamsInit ==
    /\ capped = [s \in CappedStreams |-> <<>>]
    /\ appendedTo = [s \in CappedStreams |-> 0]

\* publish / publish_scan_job / publish_notify / publish_correlation_event:
\* one XADD, which appends the entry and trims the stream.
PublishCapped(s) ==
    /\ appendedTo[s] < MaxAppends
    /\ appendedTo' = [appendedTo EXCEPT ![s] = @ + 1]
    /\ capped' = [capped EXCEPT ![s] = Trim(Append(@, appendedTo[s] + 1))]
    /\ UNCHANGED notStreams

(***************************************************************************)
(* Incidents: PATCH /incidents/{id}/status (update_incident_status),        *)
(* concurrent requests, each in its own database session at READ COMMITTED. *)
(***************************************************************************)
StatusReqs == {"p1", "p2"}

VALID_STATUS == <<"new", "triaged", "contained", "resolved", "closed">>

\* The statuses the requests name: valid ones and one that is not.
BodyStatuses == {"triaged", "contained", "resolved", "reopened"}

IsValidStatus(s) ==
    \E i \in 1..Len(VALID_STATUS) : VALID_STATUS[i] = s

IncidentsInit ==
    /\ incStatus = "new"
    /\ timeline = <<>>
    /\ ipc = [r \in StatusReqs |-> "idle"]
    /\ ibody = [r \in StatusReqs |-> "new"]
    /\ irow = [r \in StatusReqs |-> "new"]
    /\ rowLock = <<>>
    /\ transitions = <<>>
    /\ refusals = 0
    /\ statusReqs = 0

\* if body.status not in VALID_STATUS: raise HTTPException(400).
StatusRefused(r, s) ==
    /\ ipc[r] = "idle"
    /\ statusReqs < MaxStatusReqs
    /\ ~IsValidStatus(s)
    /\ statusReqs' = statusReqs + 1
    /\ refusals' = refusals + 1
    /\ UNCHANGED <<incStatus, timeline, ipc, ibody, irow, rowLock, transitions>>
    /\ UNCHANGED notIncidents

\* row = SELECT id, status FROM incidents WHERE id = :id.
StatusSelect(r, s) ==
    /\ ipc[r] = "idle"
    /\ statusReqs < MaxStatusReqs
    /\ IsValidStatus(s)
    /\ statusReqs' = statusReqs + 1
    /\ ibody' = [ibody EXCEPT ![r] = s]
    /\ irow' = [irow EXCEPT ![r] = incStatus]
    /\ ipc' = [ipc EXCEPT ![r] = "selected"]
    /\ UNCHANGED <<incStatus, timeline, rowLock, transitions, refusals>>
    /\ UNCHANGED notIncidents

\* UPDATE incidents SET status = :status ...: takes the row's lock, waiting for
\* it while another session holds it; then INSERT INTO incident_notes in the
\* same transaction.
StatusUpdate(r) ==
    /\ ipc[r] = "selected"
    /\ rowLock = <<>>
    /\ rowLock' = <<r>>
    /\ ipc' = [ipc EXCEPT ![r] = "updated"]
    /\ UNCHANGED <<incStatus, timeline, ibody, irow, transitions, refusals,
                   statusReqs>>
    /\ UNCHANGED notIncidents

\* db.commit(): the new status and the state_change note become visible.
StatusCommit(r) ==
    /\ ipc[r] = "updated"
    /\ incStatus' = ibody[r]
    /\ timeline' = Append(timeline, [from |-> irow[r], to |-> ibody[r]])
    /\ transitions' = Append(transitions, [from |-> incStatus, to |-> ibody[r]])
    /\ rowLock' = <<>>
    /\ ipc' = [ipc EXCEPT ![r] = "idle"]
    /\ UNCHANGED <<ibody, irow, refusals, statusReqs>>
    /\ UNCHANGED notIncidents

StatusStep(r) ==
    \/ \E s \in BodyStatuses : StatusRefused(r, s)
    \/ \E s \in BodyStatuses : StatusSelect(r, s)
    \/ StatusUpdate(r)
    \/ StatusCommit(r)

(***************************************************************************)
(* Notifier: main() and handle_notify of services/notifier/main.py.         *)
(***************************************************************************)
NotifyMsgIds == 1..MaxNotifyMsgs

\* A bracketed text that is no JSON: "[a1,a2]".
BareList(xs) == [kind |-> "bare_list", val |-> xs]

NotifyPayload(t, da) == [type |-> t, down_assets |-> da]

\* The notify messages of the model.
NotifyPayloads ==
    { NotifyPayload("down_assets", JsonList(<<"a1", "a2">>)),
      NotifyPayload("down_assets", BareList(<<"a1", "a2">>)),
      NotifyPayload("down_assets", BareText("a1")),
      NotifyPayload("down_assets", BareText(" ")),
      NotifyPayload("down_assets", JsonList(<<>>)),
      NotifyPayload("down_assets", Absent),
      NotifyPayload("test", JsonList(<<"a1">>)) }

\* handle_notify: the list it notifies about; <<>> when the type is not
\* down_assets.
NotifyAssets(p) ==
    IF p.type # "down_assets" THEN <<>>
    ELSE IF p.down_assets.kind = "json_list" THEN p.down_assets.val
    ELSE IF p.down_assets.kind = "bare_list" THEN p.down_assets.val
    ELSE IF p.down_assets.kind = "text"
         THEN IF Strip(p.down_assets.val[1]) = "" THEN <<>>
              ELSE <<Strip(p.down_assets.val[1])>>
         ELSE <<>>

\* For the sensitivity analysis of the properties: a send_slack that lets a
\* failed request escape, which ends handle_notify; main logs it and reads on.
AfterSlack_StopOnFailure(ok) == IF ok THEN "whatsapp" ELSE "read"

\* send_slack returns True or False and never raises for a failed request:
\* handle_notify goes on with send_whatsapp.
AfterSlack(ok) ==
    "whatsapp"

NotifierInit ==
    /\ notifyStream = <<>>
    /\ notifyGroup = TRUE
    /\ notifyDelivered = 0
    /\ notifyPending = {}
    /\ slackUrl \in BOOLEAN
    /\ twilio \in BOOLEAN
    /\ npc = "read"
    /\ nmid = 0
    /\ nassets = <<>>
    /\ nhandled = [m \in NotifyMsgIds |-> 0]
    /\ slackCalls = [m \in NotifyMsgIds |-> 0]
    /\ whatsappCalls = [m \in NotifyMsgIds |-> 0]
    /\ posts = <<>>
    /\ nacks = [m \in NotifyMsgIds |-> 0]
    /\ nraised = [m \in NotifyMsgIds |-> 0]
    /\ noutcome = [m \in NotifyMsgIds |-> "none"]
    /\ recreations = 0
    /\ groupLosses = 0
    /\ sendErrors = 0
    /\ nconnErrors = 0

\* A producer appends a message to secplat.events.notify.
NotifyPublish(p) ==
    /\ Len(notifyStream) < MaxNotifyMsgs
    /\ notifyStream' = Append(notifyStream, p)
    /\ UNCHANGED <<notifyGroup, notifyDelivered, notifyPending, slackUrl, twilio, npc,
                   nmid, nassets, nhandled, slackCalls, whatsappCalls, posts, nacks,
                   nraised, noutcome, recreations, groupLosses, sendErrors, nconnErrors>>
    /\ UNCHANGED notNotifier

\* The consumer group disappears (XGROUP DESTROY) while main waits in
\* XREADGROUP; the stream keeps its entries.
NotifyGroupLost ==
    /\ npc = "read"
    /\ notifyGroup
    /\ groupLosses < MaxGroupLosses
    /\ groupLosses' = groupLosses + 1
    /\ notifyGroup' = FALSE
    /\ notifyDelivered' = 0
    /\ notifyPending' = {}
    /\ UNCHANGED <<notifyStream, slackUrl, twilio, npc, nmid, nassets, nhandled,
                   slackCalls, whatsappCalls, posts, nacks, nraised, noutcome, recreations,
                   sendErrors, nconnErrors>>
    /\ UNCHANGED notNotifier

\* main: XREADGROUP ">" returns the next message never delivered to the group.
NotifyRead ==
    /\ npc = "read"
    /\ notifyGroup
    /\ notifyDelivered < Len(notifyStream)
    /\ notifyDelivered' = notifyDelivered + 1
    /\ notifyPending' = notifyPending \cup {notifyDelivered + 1}
    /\ nmid' = notifyDelivered + 1
    /\ npc' = "handle"
    /\ UNCHANGED <<notifyStream, notifyGroup, slackUrl, twilio, nassets, nhandled,
                   slackCalls, whatsappCalls, posts, nacks, nraised, noutcome, recreations,
                   groupLosses, sendErrors, nconnErrors>>
    /\ UNCHANGED notNotifier

\* main: XREADGROUP times out with nothing new: `continue`.
NotifyReadEmpty ==
    /\ npc = "read"
    /\ notifyGroup
    /\ notifyDelivered = Len(notifyStream)
    /\ UNCHANGED nvars
    /\ UNCHANGED notNotifier

\* main: XREADGROUP raises redis.ConnectionError: log, sleep, next iteration.
NotifyReadConnError ==
    /\ npc = "read"
    /\ nconnErrors < MaxNotifyConnErrors
    /\ nconnErrors' = nconnErrors + 1
    /\ UNCHANGED <<notifyStream, notifyGroup, notifyDelivered, notifyPending, slackUrl,
                   twilio, npc, nmid, nassets, nhandled, slackCalls, whatsappCalls,
                   posts, nacks, nraised, noutcome, recreations, groupLosses, sendErrors>>
    /\ UNCHANGED notNotifier

\* main: XREADGROUP raises redis.ResponseError NOGROUP:
\* r.xgroup_create(STREAM_NOTIFY, GROUP, id="0", mkstream=True), sleep, next
\* iteration.
NotifyReadNoGroup ==
    /\ npc = "read"
    /\ ~notifyGroup
    /\ notifyGroup' = TRUE
    /\ notifyDelivered' = 0
    /\ notifyPending' = {}
    /\ recreations' = recreations + 1
    /\ UNCHANGED <<notifyStream, slackUrl, twilio, npc, nmid, nassets, nhandled,
                   slackCalls, whatsappCalls, posts, nacks, nraised, noutcome, groupLosses,
                   sendErrors, nconnErrors>>
    /\ UNCHANGED notNotifier

\* handle_notify up to the first send: a message of another type or without
\* down assets is acknowledged at once.
HandleNotify ==
    /\ npc = "handle"
    /\ nhandled' = [nhandled EXCEPT ![nmid] = @ + 1]
    /\ noutcome' = [noutcome EXCEPT ![nmid] = "running"]
    /\ nassets' = NotifyAssets(notifyStream[nmid])
    /\ npc' = IF NotifyAssets(notifyStream[nmid]) = <<>> THEN "ack" ELSE "slack"
    /\ UNCHANGED <<notifyStream, notifyGroup, notifyDelivered, notifyPending, slackUrl,
                   twilio, nmid, slackCalls, whatsappCalls, posts, nacks, nraised,
                   recreations, groupLosses, sendErrors, nconnErrors>>
    /\ UNCHANGED notNotifier

\* send_slack: returns False at once without a webhook URL; otherwise posts
\* and returns whether the request succeeded.
SendSlack(ok) ==
    /\ npc = "slack"
    /\ ok => slackUrl
    /\ (slackUrl /\ ~ok) => sendErrors < MaxSendErrors
    /\ slackCalls' = [slackCalls EXCEPT ![nmid] = @ + 1]
    /\ posts' = IF slackUrl
                THEN Append(posts, [for |-> nmid, channel |-> "slack", ok |-> ok,
                                    down_assets |-> nassets])
                ELSE posts
    /\ sendErrors' = IF slackUrl /\ ~ok THEN sendErrors + 1 ELSE sendErrors
    /\ npc' = AfterSlack(ok)
    /\ UNCHANGED <<notifyStream, notifyGroup, notifyDelivered, notifyPending, slackUrl,
                   twilio, nmid, nassets, nhandled, whatsappCalls, nacks, nraised, noutcome,
                   recreations, groupLosses, nconnErrors>>
    /\ UNCHANGED notNotifier

\* send_whatsapp: the same for the Twilio API.
SendWhatsapp(ok) ==
    /\ npc = "whatsapp"
    /\ ok => twilio
    /\ (twilio /\ ~ok) => sendErrors < MaxSendErrors
    /\ whatsappCalls' = [whatsappCalls EXCEPT ![nmid] = @ + 1]
    /\ posts' = IF twilio
                THEN Append(posts, [for |-> nmid, channel |-> "whatsapp", ok |-> ok,
                                    down_assets |-> nassets])
                ELSE posts
    /\ sendErrors' = IF twilio /\ ~ok THEN sendErrors + 1 ELSE sendErrors
    /\ npc' = "ack"
    /\ UNCHANGED <<notifyStream, notifyGroup, notifyDelivered, notifyPending, slackUrl,
                   twilio, nmid, nassets, nhandled, slackCalls, nacks, nraised, noutcome,
                   recreations, groupLosses, nconnErrors>>
    /\ UNCHANGED notNotifier

\* handle_notify: r.xack(stream, group, mid) succeeds; back to the read.
NotifyAck ==
    /\ npc = "ack"
    /\ notifyPending' = notifyPending \ {nmid}
    /\ nacks' = [nacks EXCEPT ![nmid] = @ + 1]
    /\ noutcome' = [noutcome EXCEPT ![nmid] = "acked"]
    /\ npc' = "read"
    /\ UNCHANGED <<notifyStream, notifyGroup, notifyDelivered, slackUrl, twilio, nmid,
                   nassets, nhandled, slackCalls, whatsappCalls, posts, nraised,
                   recreations, groupLosses, sendErrors, nconnErrors>>
    /\ UNCHANGED notNotifier

\* handle_notify: the XACK raises redis.ConnectionError, which leaves
\* handle_notify; main's `except Exception` logs it ("Don't ack so it can be
\* retried") and the loop reads on.
NotifyAckFails ==
    /\ npc = "ack"
    /\ nconnErrors < MaxNotifyConnErrors
    /\ nconnErrors' = nconnErrors + 1
    /\ nraised' = [nraised EXCEPT ![nmid] = @ + 1]
    /\ noutcome' = [noutcome EXCEPT ![nmid] = "raised"]
    /\ npc' = "read"
    /\ UNCHANGED <<notifyStream, notifyGroup, notifyDelivered, notifyPending, slackUrl,
                   twilio, nmid, nassets, nhandled, slackCalls, whatsappCalls, posts,
                   nacks, recreations, groupLosses, sendErrors>>
    /\ UNCHANGED notNotifier

NotifierStep ==
    \/ NotifyRead
    \/ NotifyReadEmpty
    \/ NotifyReadConnError
    \/ NotifyReadNoGroup
    \/ HandleNotify
    \/ \E ok \in BOOLEAN : SendSlack(ok)
    \/ \E ok \in BOOLEAN : SendWhatsapp(ok)
    \/ NotifyAck
    \/ NotifyAckFails

(***************************************************************************)
(* Specifications.                                                         *)
(***************************************************************************)
\* The queue client and the deriver at rest (for the specifications of the
\* other parts).
QueueIdle == QueueInit /\ max_retries = 0
DeriverIdle == DeriverInit /\ threshold = DefaultStaleThreshold
CorrelatorIdle == CorrelatorInit /\ SecondDeriverInit
NotifierIdle == NotifierInit /\ ~slackUrl /\ ~twilio
ApiIdle == FindingsInit /\ StreamsInit /\ IncidentsInit /\ NotifierIdle

QueueNext ==
    \/ \E p \in Payloads : Publish(p)
    \/ ConsumeStep

QueueSpecInit == QueueInit /\ JobsInit /\ DeriverIdle /\ CorrelatorIdle /\ ApiIdle

SpecQueue == QueueSpecInit /\ [][QueueNext]_vars

\* The consumer process keeps running: a step of its loop that is possible is
\* eventually taken.  Producers are under no obligation to publish.
FairSpecQueue == SpecQueue /\ WF_vars(ConsumeStep)

\* The queue client with the group lost and the process stopped and started
\* again.
QueueOpsNext ==
    \/ \E p \in Payloads : Publish(p)
    \/ ConsumeStep
    \/ ReadNoGroup
    \/ GroupLost
    \/ Stop
    \/ Restart

SpecQueueOps == QueueSpecInit /\ [][QueueOpsNext]_vars

\* The consumer keeps running while it is up, and a supervisor starts it
\* again when it is down.
FairSpecQueueOps ==
    SpecQueueOps /\ WF_vars(ConsumeStep) /\ WF_vars(ReadNoGroup) /\ WF_vars(Restart)

JobsNext ==
    \/ CreateStep
    \/ RetryStep
    \/ \E w \in Workers : WorkerStep(w)

JobsSpecInit == QueueIdle /\ JobsInit /\ DeriverIdle /\ CorrelatorIdle /\ ApiIdle

SpecJobs == JobsSpecInit /\ [][JobsNext]_vars

\* Workers and job creation, without retry requests; every worker process
\* keeps running its loop.
WorkersNext ==
    \/ CreateStep
    \/ \E w \in Workers : WorkerStep(w)

FairSpecWorkers ==
    /\ JobsSpecInit /\ [][WorkersNext]_vars
    /\ \A w \in Workers : WF_vars(WorkerStep(w))

DeriverNext ==
    \/ \E d \in TickSteps : Tick(d)
    \/ \E k \in EventKeys, kind \in EventKinds : PostEvent(k, kind)
    \/ DeriverStep

DeriverSpecInit == QueueIdle /\ JobsInit /\ DeriverInit /\ CorrelatorIdle /\ ApiIdle

SpecDeriver == DeriverSpecInit /\ [][DeriverNext]_vars

CorrelatorNext ==
    \/ \E p \in CorrPayloads : CorrPublish(p)
    \/ TokenExpires
    \/ CorrGroupLost
    \/ CorrelatorStep

CorrelatorSpecInit ==
    /\ QueueIdle /\ JobsInit /\ DeriverIdle /\ CorrelatorInit /\ SecondDeriverInit
    /\ ApiIdle

SpecCorrelator == CorrelatorSpecInit /\ [][CorrelatorNext]_vars

\* Two derivers whose cycles start together; no store failures.
TwoDeriversNext ==
    \/ \E d \in TickSteps : QuietTick(d)
    \/ \E k \in EventKeys, kind \in EventKinds : QuietPostEvent(k, kind)
    \/ EnsureIndex
    \/ BeginBoth
    \/ DeriveAsset
    \/ Upsert
    \/ EndCycle
    \/ DeriveAsset2
    \/ Upsert2
    \/ EndCycle2

TwoDeriversSpecInit == QueueIdle /\ JobsInit /\ DeriverInit /\ CorrelatorIdle /\ ApiIdle

SpecTwoDerivers == TwoDeriversSpecInit /\ [][TwoDeriversNext]_vars

\* Concurrent upserts of findings while the asset's suppression changes.
FindingsNext ==
    \/ SuppressionChanges
    \/ \E u \in UpsertReqs : UpsertStep(u)

FindingsSpecInit ==
    QueueIdle /\ JobsInit /\ DeriverIdle /\ CorrelatorIdle /\ ApiIdle

SpecFindings == FindingsSpecInit /\ [][FindingsNext]_vars

\* Publishers appending to the three streams.
StreamsNext ==
    \E s \in CappedStreams : PublishCapped(s)

StreamsSpecInit ==
    QueueIdle /\ JobsInit /\ DeriverIdle /\ CorrelatorIdle /\ ApiIdle

SpecStreams == StreamsSpecInit /\ [][StreamsNext]_vars

\* Concurrent status updates of one incident.
IncidentsNext ==
    \E r \in StatusReqs : StatusStep(r)

IncidentsSpecInit ==
    QueueIdle /\ JobsInit /\ DeriverIdle /\ CorrelatorIdle /\ ApiIdle

SpecIncidents == IncidentsSpecInit /\ [][IncidentsNext]_vars

\* The notifier with producers and with the group lost.
NotifierNext ==
    \/ \E p \in NotifyPayloads : NotifyPublish(p)
    \/ NotifyGroupLost
    \/ NotifierStep

NotifierSpecInit ==
    /\ QueueIdle /\ JobsInit /\ DeriverIdle /\ CorrelatorIdle
    /\ FindingsInit /\ StreamsInit /\ IncidentsInit /\ NotifierInit

SpecNotifier == NotifierSpecInit /\ [][NotifierNext]_vars

\* The notifier process keeps running its loop.
FairSpecNotifier == SpecNotifier /\ WF_vars(NotifierStep)

(***************************************************************************)
(* Queue client: properties.                                               *)
(***************************************************************************)
\* The handler of message m raised on its first n-1 invocations and returned
\* normally on the n-th.
RaisedThenReturned(m, n) ==
    /\ Len(hist[m]) >= n
    /\ hist[m][n] = "ok"
    /\ \A i \in 1..(n - 1) : hist[m][i] = "raise"

\* Every invocation of the handler for message m so far has raised.
AlwaysRaised(m) ==
    /\ hist[m] # <<>>
    /\ \A i \in 1..Len(hist[m]) : hist[m][i] = "raise"

\* consume() has left the retry loop of message m.
Finished(m) == m <= delivered /\ (mid # m \/ cpc = "read")

\* The dead-letter entries written for message m.
DlqEntriesOf(m) == {i \in 1..Len(dlq) : dlqFor[i] = m}

\* C1: a delivered message whose handler raises on its first N-1 invocations
\* and returns on the N-th, 1 <= N <= max_retries, with the transport calls
\* made for it succeeding, is handled exactly N times, acknowledged exactly
\* once, not before the N-th invocation, and never dead-lettered.
C1_RetryThenSuccess ==
    \A m \in MsgIds :
        /\ \A n \in 1..max_retries :
              (RaisedThenReturned(m, n) /\ ~faulted[m]) =>
                 /\ Len(hist[m]) = n
                 /\ acks[m] <= 1
                 /\ DlqEntriesOf(m) = {}
                 /\ Finished(m) => (acks[m] = 1 /\ m \notin pending)
        /\ (~faulted[m] /\ acks[m] >= 1 /\ DlqEntriesOf(m) = {}) =>
              (hist[m] # <<>> /\ hist[m][Len(hist[m])] = "ok")

\* C1 witness: a message handled twice (raise, return) and then acknowledged.
C1_Witness ==
    \E m \in MsgIds :
        /\ max_retries >= 2
        /\ RaisedThenReturned(m, 2)
        /\ ~faulted[m]
        /\ Finished(m)
        /\ acks[m] = 1

\* C2: a message whose handler raises on every invocation, with the
\* transport calls made for it succeeding, gets exactly one dead-letter entry,
\* which carries original_stream and original_id (the stream and the id of
\* the message when the payload has no such fields of its own); it is
\* acknowledged exactly once, only after the dead-letter append, and the loop
\* then reads the next message.
C2_DeadLetterOnce ==
    \A m \in MsgIds :
        (AlwaysRaised(m) /\ ~faulted[m]) =>
            /\ Cardinality(DlqEntriesOf(m)) <= 1
            /\ acks[m] <= Cardinality(DlqEntriesOf(m))
            /\ \A i \in DlqEntriesOf(m) :
                  /\ {"original_stream", "original_id"} \subseteq DOMAIN dlq[i]
                  /\ stream[m] = PlainPayload =>
                        (dlq[i].original_stream = STREAM /\ dlq[i].original_id = m)
            /\ (mid = m /\ acks[m] = 1) => cpc = "read"
            /\ Finished(m) =>
                  /\ Cardinality(DlqEntriesOf(m)) = 1
                  /\ acks[m] = 1
                  /\ m \notin pending

\* C2 witness: a message was dead-lettered and acknowledged after its handler
\* raised max_retries + 1 times, and the consumer is reading again.
C2_Witness ==
    \E m \in MsgIds :
        /\ AlwaysRaised(m)
        /\ ~faulted[m]
        /\ Len(hist[m]) > 1
        /\ Finished(m)
        /\ Cardinality(DlqEntriesOf(m)) = 1
        /\ acks[m] = 1

\* C10: every message consume() has read is eventually acknowledged, also
\* when finitely many transport connection errors occur.
C10_ReadIsEventuallyAcked ==
    \A m \in MsgIds : (m \in pending) ~> (m \notin pending)

\* C11: a consumer loop never terminates on the missing-group error: when
\* the group disappears the loop recreates it and goes on reading.
C11_LoopSurvivesGroupLoss == cpc # "raised"

\* C12: a message that was read and not acknowledged when the consumer was
\* stopped is handled again (or acknowledged) after the consumer is started
\* again under the same name.
C12_PendingHandledAfterRestart ==
    \A m \in MsgIds : \A n \in 0..(MaxRetriesArg + 1) :
        (cpc = "stopped" /\ mid = m /\ m \in pending /\ Len(hist[m]) = n) ~>
            (Len(hist[m]) > n \/ m \notin pending)

(***************************************************************************)
(* Scan jobs: properties.                                                  *)
(***************************************************************************)
\* C3: of any number of claim_job_by_id calls made for a job while it is
\* queued exactly one returns the row and sets the status to running; a call
\* that finds the job not queued returns no row and changes nothing.
C3_ClaimByIdExclusive ==
    /\ [](\A j \in JobIds : claimedById[j] <= 1)
    /\ [][\A w \in Workers :
            (wpc[w] = "claim" /\ wpc'[w] # "claim") =>
                IF jobs[wmsg[w]].status = "queued"
                THEN /\ wjob'[w] = wmsg[w]
                     /\ jobs' = [jobs EXCEPT ![wmsg[w]].status = "running"]
                ELSE /\ wjob'[w] = 0
                     /\ jobs' = jobs]_vars

\* C3 witness: two workers received messages naming the same job in one
\* queued period; one holds the row, the other was returned no row.
C3_Witness ==
    \E w1, w2 \in Workers :
        /\ w1 # w2
        /\ wpc[w1] = "run_stream" /\ wjob[w1] # 0
        /\ wpc[w2] = "ack" /\ wjob[w2] = 0 /\ wmsg[w2] = wjob[w1]
        /\ claimedById[wjob[w1]] = 1
        /\ claimed[wjob[w1]] = 1
        /\ jobs[wjob[w1]].status = "running"

\* C7: each time a job is queued at most one worker, whether it claims by
\* id or by polling, obtains the job and runs it.
C7_OneWorkerPerQueuing == \A j \in JobIds : claimed[j] <= 1

\* C8: every job a worker has claimed (status running) eventually reaches
\* done or failed, also when a statement of run_one_job raises.
C8_RunningEventuallyEnds ==
    \A j \in JobIds :
        (jobs[j].status = "running") ~> (jobs[j].status \in {"done", "failed"})

\* C9: a job's status changes only queued -> running, running -> done,
\* running -> failed and done/failed -> queued (after its creation as
\* queued); retry_count changes only on done/failed -> queued, by exactly 1.
AllowedStatusChanges ==
    {<<"absent", "queued">>, <<"queued", "running">>, <<"running", "done">>,
     <<"running", "failed">>, <<"done", "queued">>, <<"failed", "queued">>}
C9_StatusTransitions ==
    [][\A j \in JobIds :
          /\ jobs'[j].status # jobs[j].status =>
                <<jobs[j].status, jobs'[j].status>> \in AllowedStatusChanges
          /\ jobs'[j].retry_count # jobs[j].retry_count =>
                /\ jobs'[j].retry_count = jobs[j].retry_count + 1
                /\ jobs[j].status \in {"done", "failed"}
                /\ jobs'[j].status = "queued"
          /\ (jobs[j].status \in {"done", "failed"} /\ jobs'[j].status = "queued") =>
                jobs'[j].retry_count = jobs[j].retry_count + 1]_vars


(***************************************************************************)
(* Deriver: properties.  written[a] holds the last two documents stored    *)
(* for asset a: the second replaced the first.                             *)
(***************************************************************************)
\* The timestamp of the event a stored document was derived from (None
\* without an event).
EventTimestamp(w) == IF w.inputs.event = <<>> THEN <<>> ELSE w.inputs.event[1].ts

C5_Idempotent ==
    \A a \in AssetKeys :
        (Len(written[a]) = 2 /\ written[a][2].inputs = written[a][1].inputs) =>
            written[a][2].doc = written[a][1].doc

\* C5 witness: a document was stored twice from the same inputs, and its
\* last_status_change is older than the event it was derived from (carried
\* over from the document that preceded the first of the two runs).
C5_Witness ==
    \E a \in AssetKeys :
        /\ Len(written[a]) = 2
        /\ written[a][2].inputs = written[a][1].inputs
        /\ written[a][2].doc = written[a][1].doc
        /\ written[a][2].doc.last_status_change # <<>>
        /\ written[a][2].doc.last_status_change # written[a][2].doc.last_seen

\* C6: a stored document derived from an event older than the staleness
\* threshold has status stale, status_num 0 and posture_state amber.
C6_StaleIsAmber ==
    \A a \in AssetKeys :
        written[a] # <<>> =>
            LET w == written[a][Len(written[a])]
            IN  (/\ w.inputs.event # <<>>
                 /\ w.inputs.now - iso_to_epoch(EventTimestamp(w))[1] > threshold) =>
                    /\ w.doc.status = "stale"
                    /\ w.doc.status_num = 0
                    /\ w.doc.posture_state = "amber"


\* C13: a derivation cycle that has started ends only after its last asset:
\* an event store error while one asset is handled does not keep the
\* remaining assets of the cycle from being derived and upserted.
C13_CycleCoversAllAssets ==
    [][(dpc \in {"derive", "put"} /\ dpc' = "sleep") => idx > Len(Assets)]_vars

\* C14: event store unavailability, at startup or during a cycle, never
\* terminates the deriver process.
C14_DeriverNeverTerminates == dpc # "terminated"

\* The last document stored for asset a, with the inputs it was derived from.
LastWritten(a) == written[a][Len(written[a])]

\* C15: every stored document has status_num 1 / 0 / -2 / -1 for status up /
\* stale / down / unknown, and posture red/0 exactly when the status is down
\* or unknown, amber/60 exactly when it is stale, green/100 exactly when it
\* is up.
C15_StatusMapping ==
    \A a \in AssetKeys :
        written[a] # <<>> =>
            LET d == LastWritten(a).doc
            IN  /\ d.status \in {"up", "stale", "down", "unknown"}
                /\ d.status_num = (CASE d.status = "up" -> 1
                                     [] d.status = "stale" -> 0
                                     [] d.status = "down" -> -2
                                     [] d.status = "unknown" -> -1)
                /\ (d.posture_state = "red" /\ d.posture_score = 0)
                       <=> d.status \in {"down", "unknown"}
                /\ (d.posture_state = "amber" /\ d.posture_score = 60)
                       <=> d.status = "stale"
                /\ (d.posture_state = "green" /\ d.posture_score = 100)
                       <=> d.status = "up"

\* C16: a stored document derived from an event that is not older than the
\* threshold has status up if the event carries a 2xx code or the status
\* "up", and status down otherwise.
C16_UpIffSuccess ==
    \A a \in AssetKeys :
        written[a] # <<>> =>
            LET w == LastWritten(a)
            IN  (/\ w.inputs.event # <<>>
                 /\ w.inputs.now - iso_to_epoch(EventTimestamp(w))[1] <= threshold) =>
                    LET ev == w.inputs.event[1]
                    IN  IF ev.code \in 200..299 \/ ev.status = "up"
                        THEN w.doc.status = "up"
                        ELSE w.doc.status = "down"

\* The document the last run would have stored for asset a had there been no
\* example-com events: the same asset, event, clock reading and previous
\* document.
WithoutOtherEvents(a) ==
    LET w == LastWritten(a)
        before == [b \in AssetKeys |->
                     IF Len(written[b]) = 2 THEN <<written[b][1].doc>> ELSE <<>>]
    IN  BuildDoc(a, w.inputs.event, w.inputs.now, threshold, FALSE,
                 get_prev_status(before, a))

\* C17: the document stored for an asset is the one derived from the asset's
\* own newest event, its previous document and the clock; the health events
\* of other keys make no difference.
C17_OwnEventsOnly ==
    \A a \in AssetKeys :
        written[a] # <<>> => LastWritten(a).doc = WithoutOtherEvents(a)

(***************************************************************************)
(* Correlator: properties.                                                 *)
(***************************************************************************)
\* The messages of the correlation stream.
CorrMsgs == 1..Len(corrStream)

\* POST /incidents requests made for message m.
Creates(m) == Cardinality({i \in 1..Len(requests) : requests[i].for = m})

\* handle_event has been called for message m and has returned or raised.
HandlerDone(m) ==
    /\ handled[m] > 0
    /\ ~(kmid = m /\ kpc \in {"handle", "login", "create", "ack"})

\* An event that asks for no incident: empty or unknown event_type,
\* finding.created without asset_key, alert.triggered without down assets.
Malformed(p) ==
    \/ p.event_type \in {"", " "}
    \/ p.event_type \notin {"", " ", "finding.created", "alert.triggered"}
    \/ p.event_type = "finding.created" /\ p.asset_key = ""
    \/ p.event_type = "alert.triggered" /\ p.down_assets.val = <<>>

\* An event that asks for an incident.
WellFormed(p) ==
    \/ p.event_type = "finding.created" /\ p.asset_key # ""
    \/ p.event_type = "alert.triggered" /\ p.down_assets.val # <<>>

\* C18: the correlator fetches a new token when the API stops accepting the
\* cached one: after one POST /incidents was refused for its token, the next
\* one is made with a token of a new login, so no two requests in a row are
\* refused for the cached token.
C18_TokenRefetched == rejected <= 1

\* C19: a message with an empty or unknown event_type, a finding.created
\* without asset_key or an alert.triggered without down assets causes no
\* login and no incident request, is never acknowledged twice, and is
\* acknowledged once handle_event is through with it (unless the XACK itself
\* raised a connection error).
C19_MalformedAckedOnly ==
    \A m \in CorrMsgs :
        Malformed(corrStream[m]) =>
            /\ logins[m] = 0
            /\ Creates(m) = 0
            /\ kacks[m] <= 1
            /\ (HandlerDone(m) /\ ~kfaulted[m]) => kacks[m] = 1

C19_Witness ==
    \E m \in CorrMsgs :
        /\ Malformed(corrStream[m])
        /\ HandlerDone(m)
        /\ kacks[m] = 1

\* C20: for a well-formed event at most one incident request is made, the
\* handler runs once and nothing is written to a dead-letter stream; when
\* the request or the login before it failed, the message is acknowledged
\* all the same (unless the XACK itself raised a connection error).
C20_FailedCreateStillAcked ==
    /\ corrDlq = <<>>
    /\ \A m \in CorrMsgs :
        WellFormed(corrStream[m]) =>
            /\ Creates(m) <= 1
            /\ handled[m] <= 1
            /\ kacks[m] <= 1
            /\ ( /\ HandlerDone(m)
                 /\ ~kfaulted[m]
                 /\ \A i \in 1..Len(requests) :
                        requests[i].for = m => ~requests[i].accepted )
               => kacks[m] = 1

C20_Witness ==
    \E m \in CorrMsgs :
        /\ WellFormed(corrStream[m])
        /\ HandlerDone(m)
        /\ kacks[m] = 1
        /\ \E i \in 1..Len(requests) :
               requests[i].for = m /\ ~requests[i].accepted

\* What the claim expects of the request body b made for payload p.
RequestMatches(p, b) ==
    IF p.event_type = "finding.created"
    THEN /\ b.severity = (IF p.severity = "" THEN "medium" ELSE p.severity)
         /\ b.asset_keys = <<p.asset_key>>
    ELSE /\ b.severity = "high"
         /\ b.asset_keys = p.down_assets.val
         /\ b.title[1] = "Assets down"
         /\ b.title[2] = SubSeq(p.down_assets.val, 1,
                                IF Len(p.down_assets.val) > 5 THEN 5
                                ELSE Len(p.down_assets.val))

RequestsMatch(m) ==
    \A i \in 1..Len(requests) :
        requests[i].for = m => RequestMatches(corrStream[m], requests[i].body)

\* C21 (as stated): for every finding.created event with an asset_key and
\* every alert.triggered event with down assets the correlator has made
\* exactly one incident request when handle_event is through with it, with
\* the event's severity (medium when absent) and that asset, resp. severity
\* high, the full list and a title naming the first five.
C21_ExactlyOneRequest ==
    \A m \in CorrMsgs :
        WellFormed(corrStream[m]) =>
            /\ RequestsMatch(m)
            /\ Creates(m) <= 1
            /\ HandlerDone(m) => Creates(m) = 1

\* C21 (amended): the same, except that no request is made for an event
\* whose login failed.
C21_OneRequestUnlessLoginFails ==
    \A m \in CorrMsgs :
        WellFormed(corrStream[m]) =>
            /\ RequestsMatch(m)
            /\ Creates(m) <= 1
            /\ HandlerDone(m) =>
                   Creates(m) = IF loginFailures[m] > 0 THEN 0 ELSE 1

C21_Witness ==
    \E m \in CorrMsgs :
        /\ corrStream[m].event_type = "alert.triggered"
        /\ Len(corrStream[m].down_assets.val) > 5
        /\ HandlerDone(m)
        /\ Creates(m) = 1
        /\ \E n \in CorrMsgs :
               /\ corrStream[n].event_type = "finding.created"
               /\ corrStream[n].severity = ""
               /\ HandlerDone(n)
               /\ Creates(n) = 1

(***************************************************************************)
(* Scan jobs: the polling fallback.                                        *)
(***************************************************************************)
\* C22: a queued web_exposure job is eventually claimed by a running worker
\* that goes on to run it, whether or not a stream message for it was
\* published or can be read.
C22_QueuedEventuallyClaimed ==
    \A j \in JobIds :
        (jobs[j].status = "queued" /\ jobs[j].job_type = "web_exposure")
            ~> (claimed[j] > 0 /\ jobs[j].status # "queued")

\* A job claimed by fetch_job, with no message for it in the stream, pending
\* or about to be published.
C22_Witness ==
    \E j \in JobIds :
        /\ claimed[j] > 0
        /\ claimedById[j] = 0
        /\ publishing[j] = 0
        /\ scanPending[j] = 0
        /\ \A i \in 1..Len(scanStream) : scanStream[i] # j

(***************************************************************************)
(* Queue client: order, retries and dead-letter entries.                   *)
(***************************************************************************)
\* C23: whenever consume() invokes the handler for a message, it has not yet
\* invoked it for any message appended later, and every message appended
\* earlier has been acknowledged or dead-lettered.
C23_InOrderOneAtATime ==
    [][\A m \in MsgIds :
          hist'[m] # hist[m] =>
              /\ \A later \in MsgIds : later > m => hist[later] = <<>>
              /\ \A earlier \in 1..(m - 1) :
                     \/ earlier \notin pending
                     \/ \E i \in 1..Len(dlqFor) : dlqFor[i] = earlier]_vars

\* C24: for the message being handled, the handler has been invoked at most
\* max_retries + 1 times; the waits so far are 2^1, 2^2, ... seconds, one
\* after each failed attempt but the (max_retries + 1)-th, after which the
\* message is dead-lettered without a wait.
C24_RetriesAndBackoff ==
    mid # 0 =>
        /\ Len(hist[mid]) <= max_retries + 1
        /\ Len(sleeps) <= max_retries
        /\ \A k \in 1..Len(sleeps) : sleeps[k] = 2^k
        /\ cpc = "handle" => Len(sleeps) = retries /\ Len(hist[mid]) = retries
        /\ cpc = "backoff" => Len(sleeps) = retries - 1 /\ retries <= max_retries
        /\ cpc = "dlq_add" => retries = max_retries + 1 /\ Len(sleeps) = max_retries

C24_Witness ==
    /\ cpc = "dlq_add"
    /\ max_retries = MaxRetriesArg
    /\ Len(hist[mid]) = max_retries + 1
    /\ \A i \in 1..Len(hist[mid]) : hist[mid][i] = "raise"
    /\ Len(sleeps) = max_retries

\* C25: every dead-letter entry names, in original_stream and original_id,
\* the stream and the id of the message it was written for, whatever the
\* payload.
C25_DlqProvenance ==
    \A i \in 1..Len(dlq) :
        /\ dlq[i].original_stream = STREAM
        /\ dlq[i].original_id = dlqFor[i]

(***************************************************************************)
(* Deriver: refresh, monotonic last_status_change, defaults.               *)
(***************************************************************************)
\* C26: a derivation cycle ends only with every document it upserted
\* followed by the cycle's _refresh request.
C26_RefreshAfterLastUpsert ==
    [][(dpc \in {"derive", "put"} /\ dpc' = "sleep") => ~unrefreshed']_vars

\* C27: the last_status_change stored for an asset never becomes null again
\* and never moves to an earlier timestamp.
C27_LastStatusChangeMonotone ==
    [][\A a \in AssetKeys :
          (statusDoc[a] # <<>> /\ statusDoc[a][1].last_status_change # <<>>) =>
              /\ statusDoc'[a] # <<>>
              /\ statusDoc'[a][1].last_status_change # <<>>
              /\ iso_to_epoch(statusDoc'[a][1].last_status_change)[1]
                     >= iso_to_epoch(statusDoc[a][1].last_status_change)[1]]_vars

\* Two documents stored one after the other for an asset, the second after a
\* status change, with a later last_status_change.
C27_Witness ==
    \E a \in AssetKeys :
        /\ Len(written[a]) = 2
        /\ written[a][1].doc.last_status_change # <<>>
        /\ written[a][2].doc.last_status_change # <<>>
        /\ written[a][2].doc.status_num # written[a][1].doc.status_num
        /\ iso_to_epoch(written[a][2].doc.last_status_change)[1]
               > iso_to_epoch(written[a][1].doc.last_status_change)[1]

\* The document one deriver alone would have written for asset a in the
\* cycle both derivers ran last.
SingleDeriverDoc(a) ==
    BuildDoc(a, latest[a], cycleBase[1].now, threshold,
             ExampleComDownRecent(latest["example-com"], cycleBase[1].now, threshold),
             get_prev_status(cycleBase[1].docs, a))

\* C28: when two derivers have run a cycle over the same events and clock,
\* with their reads of the previous document and their upserts interleaved
\* in any order, the document stored for every asset is the one a single
\* deriver would have written.
C28_RaceHarmless ==
    [][( /\ cycleBase # <<>>
         /\ ~(dpc = "sleep" /\ dpc2 = "sleep")
         /\ dpc' = "sleep" /\ dpc2' = "sleep" )
       => \A a \in AssetKeys : statusDoc'[a] = <<SingleDeriverDoc(a)>>]_vars

\* The second deriver is about to read the previous document of an asset
\* after the first has replaced it with a document of another status.
C28_Witness ==
    /\ cycleBase # <<>>
    /\ dpc2 = "derive"
    /\ idx2 = 1
    /\ idx > 1
    /\ cycleBase[1].docs[Assets[1]] # <<>>
    /\ statusDoc[Assets[1]][1].status_num
           # cycleBase[1].docs[Assets[1]][1].status_num
    /\ statusDoc[Assets[1]][1].last_status_change
           # cycleBase[1].docs[Assets[1]][1].last_status_change

\* C29: a document derived for an asset that has no health event has status
\* unknown, status_num -1, posture_state red and posture_score 0.
C29_NoEventIsUnknownRed ==
    \A a \in AssetKeys :
        \A i \in 1..Len(written[a]) :
            written[a][i].inputs.event = <<>> =>
                /\ written[a][i].doc.status = "unknown"
                /\ written[a][i].doc.status_num = -1
                /\ written[a][i].doc.posture_state = "red"
                /\ written[a][i].doc.posture_score = 0

\* An asset without events stored while another asset has one.
C29_Witness ==
    \E a, b \in AssetKeys :
        /\ written[a] # <<>>
        /\ written[a][Len(written[a])].inputs.event = <<>>
        /\ statusDoc[a] = <<written[a][Len(written[a])].doc>>
        /\ latest[b] # <<>>

(***************************************************************************)
(* Queue client: ensure_group.                                             *)
(***************************************************************************)
\* C30: ensure_group called for a group that exists (at the start of
\* consume()) raises nothing and leaves the group's cursor and pending list
\* as they were, and a message is never delivered a second time while the
\* group exists.
C30_EnsureGroupIdempotent ==
    [][/\ (restarts' # restarts /\ group) =>
              /\ group'
              /\ cpc' = "read"
              /\ delivered' = delivered
              /\ pending' = pending
       /\ (group /\ group' /\ mid' # mid) => mid' > delivered]_vars

\* consume() started again on an existing group with a message delivered and
\* pending.
C30_Witness ==
    /\ restarts = 1
    /\ group
    /\ cpc = "read"
    /\ connErrors = 0
    /\ delivered > 0
    /\ mid \in pending

\* C33: once the handler has returned normally for a delivered message it is
\* not invoked for it again: a normal return is the last handler call of the
\* message.
C33_NoCallAfterSuccess ==
    \A m \in MsgIds :
        \A i \in 1..Len(hist[m]) : hist[m][i] = "ok" => i = Len(hist[m])

(***************************************************************************)
(* Scan jobs: job types and the order of commit and publish.               *)
(***************************************************************************)
\* C35: worker-web claims and runs only web_exposure jobs: a job of another
\* type stays queued and no worker holds it.
C35_OnlyWebExposureClaimed ==
    \A j \in JobIds :
        jobs[j].job_type # "web_exposure" =>
            /\ jobs[j].status = "queued"
            /\ claimed[j] = 0
            /\ \A w \in Workers : wjob[w] # j

\* Times the row of job j has been committed with status queued.
Queuings(j) == IF jobs[j].status = "absent" THEN 0 ELSE 1 + jobs[j].retry_count

\* C37: every stream message naming job j was published after a commit that
\* left the row of j queued, one message at most per such commit; a worker
\* about to call claim_job_by_id for a message finds the row present.
C37_PublishAfterCommit ==
    /\ \A j \in JobIds : announced[j] + publishing[j] <= Queuings(j)
    /\ \A i \in 1..Len(scanStream) : jobs[scanStream[i]].status # "absent"
    /\ \A w \in Workers :
           wpc[w] = "claim" => jobs[wmsg[w]].status # "absent"

\* A worker about to claim by id the job a retry has queued and announced.
C37_Witness ==
    \E w \in Workers :
        /\ wpc[w] = "claim"
        /\ jobs[wmsg[w]].status = "queued"
        /\ jobs[wmsg[w]].retry_count > 0
        /\ announced[wmsg[w]] = 2

\* C39: publish_scan_job never raises: no API request ends with an
\* exception coming out of it.
C39_PublishNeverRaises == apiRaised = 0

(***************************************************************************)
(* Findings: properties.                                                   *)
(***************************************************************************)
\* C36: a finding.created event is published only by a request that has just
\* inserted a new row, and only while the asset is not suppressed; a request
\* whose SELECT found the finding_key publishes nothing; and whatever the
\* sequence or interleaving of upserts, no finding_key has more than one
\* finding.created event.
C36_OneCreatedPerKey ==
    [][\A k \in FindingKeys :
          /\ created'[k] <= 1
          /\ created'[k] # created[k] =>
                /\ ~suppressed
                /\ \E u \in UpsertReqs :
                      /\ ukey[u] = k
                      /\ ~existing[u]
                      /\ upc[u] = "inserted"
                      /\ upc'[u] = "idle"]_vars

\* A key whose event was published, that was submitted again afterwards, and
\* for which a concurrent INSERT was refused.
C36_Witness ==
    \E k \in FindingKeys : created[k] = 1 /\ resubmits[k] > 0 /\ conflicts[k] > 0

(***************************************************************************)
(* Capped streams: properties.                                             *)
(***************************************************************************)
\* The entries of stream s are the n most recently appended ones, in append
\* order, for some n.
NewestInOrder(s) ==
    \A i \in 1..Len(capped[s]) : capped[s][i] = appendedTo[s] - Len(capped[s]) + i

\* C31 as stated: after any sequence of publish calls a stream holds at most
\* its configured maximum number of entries, and these are the most recently
\* appended ones in append order.
C31_AtMostMaxLen ==
    \A s \in CappedStreams : Len(capped[s]) <= StreamMaxLen /\ NewestInOrder(s)

\* C31, amended: after any sequence of publish calls a stream holds fewer
\* entries than its configured maximum plus one node's worth; it holds all
\* appended entries until the maximum is reached and never fewer than the
\* maximum afterwards; and the entries it holds are the most recently
\* appended ones in append order.
C31_ApproximatelyCapped ==
    \A s \in CappedStreams :
        /\ Len(capped[s]) < StreamMaxLen + NodeEntries
        /\ IF appendedTo[s] <= StreamMaxLen
           THEN Len(capped[s]) = appendedTo[s]
           ELSE Len(capped[s]) >= StreamMaxLen
        /\ NewestInOrder(s)

\* A stream that was trimmed and holds more than the maximum.
C31_Witness ==
    \E s \in CappedStreams :
        /\ Len(capped[s]) > StreamMaxLen
        /\ appendedTo[s] - Len(capped[s]) >= NodeEntries

(***************************************************************************)
(* Incidents: properties.                                                  *)
(***************************************************************************)
\* C32: every committed status update to a valid status s leaves the stored
\* status s and appends exactly one state_change entry that records the
\* status the update replaced and s; a request naming an invalid status
\* changes neither the status nor the timeline.
C32_TimelineRecordsTransitions ==
    /\ Len(timeline) = Len(transitions)
    /\ Len(timeline) + refusals + Cardinality({r \in StatusReqs : ipc[r] # "idle"})
          = statusReqs
    /\ \A i \in 1..Len(timeline) : timeline[i] = transitions[i]
    /\ timeline # <<>> => incStatus = timeline[Len(timeline)].to

\* The same with the previous status left out: status stored, one entry per
\* update naming s, nothing on a refusal.
C32_StatusStoredOneEntry ==
    /\ Len(timeline) = Len(transitions)
    /\ Len(timeline) + refusals + Cardinality({r \in StatusReqs : ipc[r] # "idle"})
          = statusReqs
    /\ \A i \in 1..Len(timeline) : timeline[i].to = transitions[i].to
    /\ timeline # <<>> => incStatus = timeline[Len(timeline)].to

(***************************************************************************)
(* Notifier: properties.                                                   *)
(***************************************************************************)
NotifyMsgs == 1..Len(notifyStream)

\* handle_notify is at work on message m.
InHand(m) == npc # "read" /\ nmid = m

\* The requests made to channel c for message m.
PostsFor(m, c) == {i \in 1..Len(posts) : posts[i].for = m /\ posts[i].channel = c}

\* C34: a message whose handling raised is left unacknowledged and is handled
\* again later.
C34_RaisedHandledAgain ==
    \A m \in NotifyMsgIds : (noutcome[m] = "raised") ~> (noutcome[m] # "raised")

\* C38: a message that was acknowledged is not delivered to handle_notify
\* again, also after the group was lost and recreated.
C38_AckedNotRedelivered ==
    [][\A m \in NotifyMsgIds : nhandled'[m] > nhandled[m] => nacks[m] = 0]_vars

\* C40: every call of handle_notify for a down_assets message with assets
\* calls send_slack and then send_whatsapp, whatever the first returned, makes
\* one request per configured channel, and then acknowledges the message
\* once (unless the XACK itself raised a connection error); a call for a
\* message of another type or without assets makes no send and acknowledges
\* once.
C40_BothChannelsThenOneAck ==
    \A m \in NotifyMsgs :
        /\ nacks[m] + nraised[m] <= nhandled[m]
        /\ ~InHand(m) => nacks[m] + nraised[m] = nhandled[m]
        /\ Cardinality(PostsFor(m, "slack")) = (IF slackUrl THEN slackCalls[m] ELSE 0)
        /\ Cardinality(PostsFor(m, "whatsapp")) = (IF twilio THEN whatsappCalls[m] ELSE 0)
        /\ IF NotifyAssets(notifyStream[m]) # <<>>
           THEN /\ whatsappCalls[m] <= slackCalls[m]
                /\ slackCalls[m] <= nhandled[m]
                /\ nacks[m] + nraised[m] <= whatsappCalls[m]
                /\ ~InHand(m) =>
                      slackCalls[m] = nhandled[m] /\ whatsappCalls[m] = nhandled[m]
           ELSE slackCalls[m] = 0 /\ whatsappCalls[m] = 0

\* A message for which the Slack request failed, the WhatsApp request was
\* made all the same, and the acknowledgement followed.
C40_Witness ==
    \E m \in NotifyMsgs :
        /\ ~InHand(m)
        /\ nacks[m] = 1
        /\ \E i \in PostsFor(m, "slack") : ~posts[i].ok
        /\ \E i \in PostsFor(m, "whatsapp") : posts[i].ok

====
